---- MODULE Spec2Model ----
(***************************************************************************)
(* Partition sizing, fresh-layout planning and update-mode planning of the *)
(* macOS multi-boot USB tool (core/constants.py, operations/partitioner.py,*)
(* operations/updater.py, ui/gui_tkinter.py, main.py).                     *)
(*                                                                         *)
(* Text is a sequence of one-character strings, so that split, replace,    *)
(* containment and slicing are computed as Python computes them.  An       *)
(* optional value (None or a value) is a sequence of length 0 or 1.        *)
(***************************************************************************)
EXTENDS Integers, Sequences, FiniteSets, TLC

VARIABLES
    version_string,      \* calculate_partition_size: argument version_string
    installer_size_kb,   \* calculate_partition_size: argument installer_size_kb
    override_buffer_gb,  \* calculate_partition_size: argument, tenths of a GB, <<>> = None
    size_result,         \* calculate_partition_size: outcome of the call
    version_key,         \* _extract_version_key: <<>> before the call, then its outcome
    parsed_version,      \* parse_version: <<>> before the call, then its outcome
    installers,          \* the installer list handed to the planner
    total_disk_gb,       \* create_multiboot_layout: argument total_disk_gb
    partitions,          \* create_multiboot_layout: triples passed to diskutil partitionDisk
    create_result,       \* create_multiboot_layout: outcome of the call
    disk,                \* update mode: partition table of the target device
    update_ui,           \* update mode: which front end runs ("gui" or "cli")
    update_pc,           \* update mode: position of the update run
    structure,           \* update mode: result of get_drive_structure (<<>> = None)
    actions,             \* run_update_thread: planned actions
    action_index,        \* update mode: index of the next action / installer
    current_part,        \* split_partition: identifier the next split is issued against;
                         \* get_drive_structure: its argument disk_id
    new_partitions,      \* split_partition: the list of partitions created so far
    split_result,        \* split_partition, add_partition_to_free_space: <<>> before the
                         \* function returns, then <<[none, partitions]>>
    commands,            \* update mode: diskutil commands issued so far
    scanned,             \* command line: installers found by scan_for_installers, each
                         \* with the files of its bundle
    stub_flags,          \* inst['is_stub'] of the scanned installers, once computed
    cli_mode,            \* command line: "create" or "update"
    cli_pc,              \* command line: position of the run
    partition_num,       \* mode_create_new: slice number of the next installation
    successful,          \* mode_create_new: names of the installers installed
    failed,              \* mode_create_new: names of the installers that failed
    erase_typed,         \* command line: confirm_destructive_action returned True
    machine,             \* what diskutil reports about the machine: its disks, the
                         \* disk of the boot volume, and which probes fail
    show_all,            \* get_external_usb_drives: argument show_all
    usb_drives,          \* get_external_usb_drives: <<>> before the call, then
                         \* <<the list returned>>
    selected_disk,       \* validate_safe_target: argument disk_id, the selected disk
    is_safe,             \* validate_safe_target: <<>> before the call, then <<is_safe>>
    is_working,          \* MultiBootGUI.is_working
    create_btn,          \* MultiBootGUI.create_btn: its state, "normal" or "disabled"
    dialogs,             \* the pre-flight dialogs that are open
    workers,             \* the process_thread threads that are running
    deleters,            \* the run_delete_partition threads that are running
    found                \* run_creation_thread: for each installer the position in
                         \* the layout of the partition found for it, 0 for none

vars == <<version_string, installer_size_kb, override_buffer_gb, size_result,
          version_key, parsed_version,
          installers, total_disk_gb, partitions, create_result,
          disk, update_ui, update_pc, structure, actions, action_index,
          current_part, new_partitions, split_result, commands,
          scanned, stub_flags, cli_mode, cli_pc, partition_num, successful, failed,
          erase_typed,
          machine, show_all, usb_drives, selected_disk, is_safe,
          is_working, create_btn, dialogs, workers, deleters, found>>

sizeVars == <<version_string, installer_size_kb, override_buffer_gb, size_result,
              version_key, parsed_version>>
createVars == <<total_disk_gb, partitions, create_result>>
updateVars == <<disk, update_ui, update_pc, structure, actions, action_index,
                current_part, new_partitions, split_result, commands>>
cliVars == <<scanned, stub_flags, cli_mode, cli_pc, partition_num, successful, failed>>
guiVars == <<is_working, create_btn, dialogs, workers, deleters, found>>
frontVars == <<cliVars, erase_typed, machine, show_all, usb_drives, selected_disk, is_safe,
               guiVars>>

(***************************************************************************)
(* Python string operations, on sequences of characters.                   *)
(***************************************************************************)

Digits == {"0", "1", "2", "3", "4", "5", "6", "7", "8", "9"}

DigitValue(c) ==
    CASE c = "0" -> 0 [] c = "1" -> 1 [] c = "2" -> 2 [] c = "3" -> 3
      [] c = "4" -> 4 [] c = "5" -> 5 [] c = "6" -> 6 [] c = "7" -> 7
      [] c = "8" -> 8 [] c = "9" -> 9

\* s[:n]
Slice(s, n) == SubSeq(s, 1, IF Len(s) < n THEN Len(s) ELSE n)

\* s[n:] for n counted from 1: the characters from position n on
From(s, n) == SubSeq(s, n, Len(s))

\* s.startswith(p)
StartsWith(s, p) == Len(p) <= Len(s) /\ SubSeq(s, 1, Len(p)) = p

\* the least element of a set of positions, 0 when there is none
First(hits) == IF hits = {} THEN 0 ELSE CHOOSE i \in hits : \A j \in hits : i <= j

\* s.find(sub) + 1: position of the first occurrence of sub in s, 0 when absent
Find(s, sub) ==
    First({i \in 1..(Len(s) - Len(sub) + 1) : SubSeq(s, i, i + Len(sub) - 1) = sub})

\* sub in s
Contains(s, sub) == Find(s, sub) # 0

\* s.replace(old, new), old non-empty: non-overlapping occurrences, left to
\* right; replace_at continues from the first occurrence, at position i
RECURSIVE Replace(_, _, _)
replace_at(s, old, new, i) ==
    IF i = 0 THEN s
    ELSE SubSeq(s, 1, i - 1) \o new \o Replace(From(s, i + Len(old)), old, new)

Replace(s, old, new) == replace_at(s, old, new, Find(s, old))

\* s.split(sep) for a one-character separator: every part, empty ones
\* included; split_at continues from the first separator, at position i
RECURSIVE Split(_, _)
split_at(s, sep, i) ==
    IF i = 0 THEN <<s>>
    ELSE <<SubSeq(s, 1, i - 1)>> \o Split(From(s, i + 1), sep)

Split(s, sep) == split_at(s, sep, Find(s, <<sep>>))

\* s.split(): the whitespace-separated words of s, none of them empty;
\* words_at continues from the first space of a text that starts with a word
RECURSIVE SplitWords(_)
words_at(s, i) ==
    IF i = 0 THEN <<s>>
    ELSE <<SubSeq(s, 1, i - 1)>> \o SplitWords(From(s, i))

SplitWords(s) ==
    IF s = <<>> THEN <<>>
    ELSE IF Head(s) = " " THEN SplitWords(Tail(s))
    ELSE words_at(s, Find(s, <<" ">>))

\* whether int(s) returns: a non-empty run of decimal digits
IsInt(s) == s # <<>> /\ \A i \in 1..Len(s) : s[i] \in Digits

\* int(s) for such a run
RECURSIVE IntOf(_)
IntOf(s) ==
    IF s = <<>> THEN 0
    ELSE 10 * IntOf(SubSeq(s, 1, Len(s) - 1)) + DigitValue(s[Len(s)])

Upper == <<"A", "B", "C", "D", "E", "F", "G", "H", "I", "J", "K", "L", "M",
           "N", "O", "P", "Q", "R", "S", "T", "U", "V", "W", "X", "Y", "Z">>
LowerLetters == <<"a", "b", "c", "d", "e", "f", "g", "h", "i", "j", "k", "l", "m",
                  "n", "o", "p", "q", "r", "s", "t", "u", "v", "w", "x", "y", "z">>

\* s.lower()
Lower(s) ==
    [i \in 1..Len(s) |->
        IF \E k \in 1..26 : Upper[k] = s[i]
        THEN LowerLetters[CHOOSE k \in 1..26 : Upper[k] = s[i]]
        ELSE s[i]]

(***************************************************************************)
(* core/constants.py                                                       *)
(***************************************************************************)

\* OS_DATABASE in insertion order; buffer_gb in tenths of a GB
OS_DATABASE ==
    << [key |-> <<"2", "6">>,    name |-> <<"T", "a", "h", "o", "e">>,       buffer_gb |-> 30],
       [key |-> <<"1", "5">>,    name |-> <<"S", "e", "q", "u", "o", "i", "a">>,     buffer_gb |-> 25],
       [key |-> <<"1", "4">>,    name |-> <<"S", "o", "n", "o", "m", "a">>,      buffer_gb |-> 22],
       [key |-> <<"1", "3">>,    name |-> <<"V", "e", "n", "t", "u", "r", "a">>,     buffer_gb |-> 20],
       [key |-> <<"1", "2">>,    name |-> <<"M", "o", "n", "t", "e", "r", "e", "y">>,    buffer_gb |-> 20],
       [key |-> <<"1", "1">>,    name |-> <<"B", "i", "g", " ", "S", "u", "r">>,     buffer_gb |-> 20],
       [key |-> <<"1", "0", ".", "1", "5">>, name |-> <<"C", "a", "t", "a", "l", "i", "n", "a">>,    buffer_gb |-> 15],
       [key |-> <<"1", "0", ".", "1", "4">>, name |-> <<"M", "o", "j", "a", "v", "e">>,      buffer_gb |-> 15],
       [key |-> <<"1", "0", ".", "1", "3">>, name |-> <<"H", "i", "g", "h", " ", "S", "i", "e", "r", "r", "a">>, buffer_gb |-> 10],
       [key |-> <<"1", "0", ".", "1", "2">>, name |-> <<"S", "i", "e", "r", "r", "a">>,      buffer_gb |-> 10],
       [key |-> <<"1", "0", ".", "1", "1">>, name |-> <<"E", "l", " ", "C", "a", "p", "i", "t", "a", "n">>,  buffer_gb |-> 10] >>

\* HFS_OVERHEAD_MULTIPLIER = 0.05, as a percentage
HFS_OVERHEAD_PERCENT == 5
BOOT_FILES_MB == 200
MIN_PARTITION_MB == 5500
\* OS_DATABASE.get("default_buffer", 1.0): nothing stores that key, tenths of a GB
DEFAULT_BUFFER_GB == 10

\* OS_DATABASE.get(key): the entries with that key (none or one)
OS_DATABASE_get(key) == SelectSeq(OS_DATABASE, LAMBDA e : e.key = key)

\* the try block of _extract_version_key over parts = clean.split('.'); the
\* ValueError of int() is caught there and gives "11"
version_key_of(parts) ==
    IF parts[1] = <<"1", "0">> /\ Len(parts) >= 2 THEN parts[1] \o <<".">> \o parts[2]
    ELSE IF ~IsInt(parts[1]) THEN <<"1", "1">>
    ELSE IF IntOf(parts[1]) >= 11 THEN parts[1]
    ELSE <<"1", "1">>

\* an _extract_version_key without the cut at the hyphen
_extract_version_key_uncut(v) ==
    IF SplitWords(v) = <<>> THEN [exc |-> "IndexError", key |-> <<>>]
    ELSE [exc |-> "", key |-> version_key_of(Split(SplitWords(v)[1], "."))]

\* _extract_version_key: exc = "IndexError" when the call raises, else the key.
\* version_string.split()[0] is evaluated before the try block, so its
\* IndexError is not caught.
_extract_version_key(v) ==
    IF SplitWords(v) = <<>> THEN [exc |-> "IndexError", key |-> <<>>]
    ELSE [exc |-> "",
          key |-> version_key_of(Split(Split(SplitWords(v)[1], "-")[1], "."))]

\* OS_DATABASE.get(version_key, {"buffer_gb": default})["buffer_gb"] in tenths
\* of a GB, for the result k of _extract_version_key; <<>> when that raised
catalog_buffer_of(k, e) ==
    IF k.exc # "" THEN <<>>
    ELSE IF e = <<>> THEN <<DEFAULT_BUFFER_GB>>
    ELSE <<e[1].buffer_gb>>

catalog_buffer(k) == catalog_buffer_of(k, OS_DATABASE_get(k.key))

\* the buffer under a truthiness test of the override ("if override_buffer_gb:"),
\* which takes an override of 0 as absent
effective_buffer_truthy(v, override) ==
    IF override # <<>> /\ override[1] # 0 THEN override
    ELSE catalog_buffer(_extract_version_key(v))

\* The buffer the size is computed with, in tenths of a GB: the override when
\* it "is not None", else the catalog's buffer for the version key, else the
\* default.  <<>> when _extract_version_key raises.
effective_buffer(v, override) ==
    IF override # <<>> THEN override
    ELSE catalog_buffer(_extract_version_key(v))

\* Sizes are summed in units of 1/20480 MB, in which every term of total_mb is
\* an integer: 1 KB = 20 units, 5% of 1 KB = 1 unit, 0.1 GB = 102.4 MB =
\* 2097152 units.  The floating-point sum of the code differs from the exact
\* sum by less than 1e-9 MB; for the payloads and buffers used here math.ceil
\* of it is the ceiling of the exact sum.
UnitsPerMB == 20 * 1024

CeilDiv(n, d) == (n + d - 1) \div d

Max(a, b) == IF a >= b THEN a ELSE b

\* installer_mb of calculate_partition_size, in units
installer_units(kb) == kb * (UnitsPerMB \div 1024)

\* total_mb with twice the overhead fraction (10%)
total_units_10pct(kb, buffer) ==
    installer_units(kb) + installer_units(kb) \div (100 \div (2 * HFS_OVERHEAD_PERCENT))
        + BOOT_FILES_MB * UnitsPerMB + buffer * ((1024 * UnitsPerMB) \div 10)

\* total_mb of calculate_partition_size, in units
total_units(kb, buffer) ==
    installer_units(kb) + (installer_units(kb) * HFS_OVERHEAD_PERCENT) \div 100
        + BOOT_FILES_MB * UnitsPerMB + buffer * ((1024 * UnitsPerMB) \div 10)

\* max(MIN_PARTITION_MB, math.ceil(total_mb)) for the buffer b
size_with_buffer(kb, b) ==
    IF b = <<>> THEN [exc |-> "IndexError", value |-> 0]
    ELSE [exc |-> "",
          value |-> Max(MIN_PARTITION_MB, CeilDiv(total_units(kb, b[1]), UnitsPerMB))]

\* calculate_partition_size: exc = "IndexError" when the call raises, else
\* value is the size in MB
calculate_partition_size(kb, v, override) ==
    size_with_buffer(kb, effective_buffer(v, override))

(***************************************************************************)
(* Inputs.                                                                 *)
(***************************************************************************)

MaxVersionLen == 3
MaxPayloadGB == 2

VersionChars == {"0", "1", "4", ".", "-", " ", "b"}

\* every version string of at most MaxVersionLen characters
VersionStrings == UNION {[1..n -> VersionChars] : n \in 0..MaxVersionLen}

\* version strings of installers in the field (CFBundleShortVersionString)
NamedVersions ==
    { <<"1", "4", ".", "0">>, <<"1", "4", ".", "6", ".", "1">>, <<"1", "5", ".", "0", " ", "B", "e", "t", "a", " ", "2">>, <<"1", "0", ".", "1", "5", ".", "7", "-", "R", "C">>, <<"1", "0", ".", "1", "3", ".", "6">>,
      <<"1", "3", ".", "6", ".", "0", "2">>, <<"1", "2", ".", "6", ".", "0", "6">>, <<"2", "6", ".", "1">>, <<"9", ".", "3">>, <<"1", "0">>, <<"U", "n", "k", "n", "o", "w", "n">> }

KBPerGB == 1024 * 1024

\* installer sizes in KB
Payloads ==
    {14000000, 13 * KBPerGB, 14 * KBPerGB}
        \cup {g * KBPerGB + r : g \in 0..MaxPayloadGB, r \in {0, 1, 20479, 20480}}

\* buffer overrides in tenths of a GB, and None
BufferValues == {0, 1, 3, 5, 8, 10, 22, 25, 30, 200}
BufferChoices == {<<>>} \cup {<<b>> : b \in BufferValues}

SizeInputs ==
    (VersionStrings \X {0, 13 * KBPerGB} \X {<<>>})
        \cup (NamedVersions \X Payloads \X BufferChoices)

(***************************************************************************)
(* Idle values of the parts a specification does not exercise.             *)
(***************************************************************************)

SizeIdle ==
    /\ version_string = <<>>
    /\ installer_size_kb = 0
    /\ override_buffer_gb = <<>>
    /\ size_result = [status |-> "idle", value |-> 0]
    /\ version_key = <<>>
    /\ parsed_version = <<>>

FrontIdle ==
    /\ scanned = <<>>
    /\ stub_flags = <<>>
    /\ cli_mode = "none"
    /\ cli_pc = "idle"
    /\ partition_num = 0
    /\ successful = <<>>
    /\ failed = <<>>
    /\ erase_typed = FALSE
    /\ machine = <<>>
    /\ show_all = FALSE
    /\ usb_drives = <<>>
    /\ selected_disk = <<>>
    /\ is_safe = <<>>
    /\ is_working = FALSE
    /\ create_btn = "disabled"
    /\ dialogs = 0
    /\ workers = 0
    /\ deleters = 0
    /\ found = <<>>

CreateIdle ==
    /\ total_disk_gb = 0
    /\ partitions = <<>>
    /\ create_result = "idle"

UpdateIdle ==
    /\ disk = <<>>
    /\ update_ui = "none"
    /\ update_pc = "idle"
    /\ structure = <<>>
    /\ actions = <<>>
    /\ action_index = 0
    /\ current_part = <<>>
    /\ new_partitions = <<>>
    /\ split_result = <<>>
    /\ commands = <<>>

(***************************************************************************)
(* Sizing: one call of calculate_partition_size.                           *)
(***************************************************************************)

InitSize ==
    /\ \E in \in SizeInputs :
          /\ version_string = in[1]
          /\ installer_size_kb = in[2]
          /\ override_buffer_gb = in[3]
    /\ size_result = [status |-> "pending", value |-> 0]
    /\ version_key = <<>>
    /\ parsed_version = <<>>
    /\ installers = <<>>
    /\ CreateIdle
    /\ UpdateIdle
    /\ FrontIdle

CalculatePartitionSize ==
    /\ size_result.status = "pending"
    /\ LET r == calculate_partition_size(installer_size_kb, version_string,
                                         override_buffer_gb)
       IN  size_result' = IF r.exc # "" THEN [status |-> r.exc, value |-> 0]
                          ELSE [status |-> "returned", value |-> r.value]
    /\ UNCHANGED <<version_string, installer_size_kb, override_buffer_gb,
                   version_key, parsed_version, installers, createVars, updateVars,
                   frontVars>>

NextSize == CalculatePartitionSize

SpecSize == InitSize /\ [][NextSize]_vars

\* C1: the size is non-decreasing in the payload for a fixed version and
\* buffer, and non-decreasing in the effective buffer for a fixed payload:
\* no larger payload and no larger buffer gives a smaller size than the one
\* the call returned.
C1_Monotone ==
    size_result.status = "returned" =>
        /\ \A kb \in Payloads :
              kb >= installer_size_kb =>
                  calculate_partition_size(kb, version_string, override_buffer_gb).value
                      >= size_result.value
        /\ \A kb \in Payloads :
              kb <= installer_size_kb =>
                  calculate_partition_size(kb, version_string, override_buffer_gb).value
                      <= size_result.value
        /\ \A b \in BufferValues :
              /\ b >= effective_buffer(version_string, override_buffer_gb)[1] =>
                    calculate_partition_size(installer_size_kb, version_string, <<b>>).value
                        >= size_result.value
              /\ b <= effective_buffer(version_string, override_buffer_gb)[1] =>
                    calculate_partition_size(installer_size_kb, version_string, <<b>>).value
                        <= size_result.value

\* C1 witness: a call returned a size above the floor, for a payload and a
\* buffer that both have larger and smaller neighbours
C1_Witness ==
    /\ size_result.status = "returned"
    /\ size_result.value > MIN_PARTITION_MB
    /\ override_buffer_gb = <<0>>
    /\ \E kb \in Payloads : kb > installer_size_kb
    /\ \E kb \in Payloads : kb < installer_size_kb

\* C2: a call with payload 0 and no override returns, for every version
\* string, and returns at least MIN_PARTITION_MB.
C2_FloorTotal ==
    (size_result.status # "pending" /\ installer_size_kb = 0 /\ override_buffer_gb = <<>>)
        => (size_result.status = "returned" /\ size_result.value >= MIN_PARTITION_MB)

MaxInstallers == 3

\* installer descriptors as the scanner and the GUI build them: name, version
\* (CFBundleShortVersionString, any text), size_kb, buffer_gb (the GUI's
\* override in tenths of a GB, <<>> when absent)
InstallerCatalog ==
    { [name |-> <<"I", "n", "s", "t", "a", "l", "l", " ", "m", "a", "c", "O", "S", " ", "S", "o", "n", "o", "m", "a", ".", "a", "p", "p">>, version |-> <<"1", "4", ".", "6", ".", "1">>,
       size_kb |-> 15162000, buffer_gb |-> <<>>],
      [name |-> <<"I", "n", "s", "t", "a", "l", "l", " ", "m", "a", "c", "O", "S", " ", "S", "e", "q", "u", "o", "i", "a", ".", "a", "p", "p">>, version |-> <<"1", "5", ".", "0", " ", "B", "e", "t", "a", " ", "2">>,
       size_kb |-> 14 * KBPerGB, buffer_gb |-> <<8>>],
      [name |-> <<"I", "n", "s", "t", "a", "l", "l", " ", "m", "a", "c", "O", "S", " ", "H", "i", "g", "h", " ", "S", "i", "e", "r", "r", "a", ".", "a", "p", "p">>, version |-> <<"1", "0", ".", "1", "3", ".", "6", "-", "R", "C", "1">>,
       size_kb |-> 5400000, buffer_gb |-> <<>>],
      [name |-> <<"I", "n", "s", "t", "a", "l", "l", " ", "m", "a", "c", "O", "S", " ", "S", "i", "e", "r", "r", "a", ".", "a", "p", "p">>, version |-> <<"1", "2", ".", "6", ".", "0", "6">>,
       size_kb |-> 5100000, buffer_gb |-> <<3>>],
      [name |-> <<"I", "n", "s", "t", "a", "l", "l", " ", "m", "a", "c", "O", "S", " ", "V", "e", "n", "t", "u", "r", "a", ".", "a", "p", "p">>, version |-> <<" ">>,
       size_kb |-> 12000000, buffer_gb |-> <<20>>] }

\* the non-empty installer lists of at most n entries, repetitions allowed
InstallerLists(n) == UNION {[1..k -> InstallerCatalog] : k \in 1..n}

\* the loop over OS_DATABASE from entry i on: the first name contained in
\* clean_name, both in lower case; <<>> when the loop ends without a return
RECURSIVE db_name_in(_, _)
db_name_in(clean_name, i) ==
    IF i > Len(OS_DATABASE) THEN <<>>
    ELSE IF Contains(Lower(clean_name), Lower(OS_DATABASE[i].name))
         THEN <<OS_DATABASE[i].name>>
         ELSE db_name_in(clean_name, i + 1)

\* the special cases that follow the loop
special_name(clean_name) ==
    IF Contains(clean_name, <<"S", "i", "e", "r", "r", "a">>) /\ ~Contains(clean_name, <<"H", "i", "g", "h">>)
    THEN <<<<"S", "i", "e", "r", "r", "a">>>>
    ELSE IF Contains(clean_name, <<"H", "i", "g", "h", " ", "S", "i", "e", "r", "r", "a">>) THEN <<<<"H", "i", "g", "h", " ", "S", "i", "e", "r", "r", "a">>>>
    ELSE IF Contains(clean_name, <<"E", "l", " ", "C", "a", "p", "i", "t", "a", "n">>) THEN <<<<"E", "l", " ", "C", "a", "p", "i", "t", "a", "n">>>>
    ELSE <<>>

\* step 1 of get_os_name: the name found from the installer's name, <<>> when
\* there is no installer name or nothing returns
first_name(from_db, special) == IF from_db # <<>> THEN from_db ELSE special

name_lookup_in(clean_name) == first_name(db_name_in(clean_name, 1), special_name(clean_name))

name_lookup(installer_name) ==
    IF installer_name = <<>> THEN <<>>
    ELSE name_lookup_in(Replace(Replace(Replace(installer_name, <<"I", "n", "s", "t", "a", "l", "l", " ", "m", "a", "c", "O", "S", " ">>, <<>>),
                                        <<"I", "n", "s", "t", "a", "l", "l", " ">>, <<>>), <<".", "a", "p", "p">>, <<>>))

\* step 2 of get_os_name: OS_DATABASE.get(version_key, {}).get("name", "macOS")
\* for the result k of _extract_version_key and the entry e under its key
version_name_of(k, e) ==
    IF k.exc # "" THEN [exc |-> k.exc, name |-> <<>>]
    ELSE IF e = <<>> THEN [exc |-> "", name |-> <<"m", "a", "c", "O", "S">>]
    ELSE [exc |-> "", name |-> e[1].name]

version_name(k) == version_name_of(k, OS_DATABASE_get(k.key))

os_name_of(by_name, by_version) ==
    IF by_name # <<>> THEN [exc |-> "", name |-> by_name[1]] ELSE by_version

\* get_os_name(version_string, installer_name): installer_name <<>> when not
\* given.  exc = "IndexError" when _extract_version_key raises.
get_os_name(v, installer_name) ==
    os_name_of(name_lookup(installer_name), version_name(_extract_version_key(v)))

VOLUME_NAME_MAX == 27

\* f"INSTALL_{os_name}_{version_clean}" for the result of get_os_name and the
\* words of version.replace('.', '_'), version_clean being the first word;
\* exc = "IndexError" when get_os_name raised or there is no word
formatted_name(os_name, words) ==
    IF os_name.exc # "" THEN [exc |-> os_name.exc, name |-> <<>>]
    ELSE IF words = <<>> THEN [exc |-> "IndexError", name |-> <<>>]
    ELSE [exc |-> "", name |-> <<"I", "N", "S", "T", "A", "L", "L", "_">> \o os_name.name \o <<"_">> \o words[1]]

\* [:limit] of the formatted name
truncated(formatted, limit) == [formatted EXCEPT !.name = Slice(@, limit)]

\* the name without the [:27]
volume_name_untruncated(v, installer_name) ==
    formatted_name(get_os_name(v, installer_name), SplitWords(Replace(v, <<".">>, <<"_">>)))

\* part_name of the partitioner and of the updater: installer_name is <<>>
\* where the code calls get_os_name with the version alone
volume_name(v, installer_name) ==
    truncated(formatted_name(get_os_name(v, installer_name),
                             SplitWords(Replace(v, <<".">>, <<"_">>))),
              VOLUME_NAME_MAX)

(***************************************************************************)
(* operations/partitioner.py: create_multiboot_layout                      *)
(***************************************************************************)

DiskSizesGB == {0, 16, 64, 8192}

EFI_ENTRY == [fs |-> "JHFS+", name |-> <<"E", "F", "I", "_", "S", "Y", "S", "T", "E", "M">>, size |-> [n |-> 1, unit |-> "G"]]
DATA_ENTRY == [fs |-> "ExFAT", name |-> <<"D", "A", "T", "A", "_", "S", "T", "O", "R", "E">>, size |-> [n |-> 0, unit |-> "R"]]

\* the triple appended for an installer, from the results of
\* calculate_partition_size and of the naming.  The number
\* calculate_partition_size returned (MB) is held in size_gb and written with
\* the suffix G.
entry_of(size_gb, part_name) ==
    IF size_gb.exc # "" THEN [exc |-> size_gb.exc]
    ELSE IF part_name.exc # "" THEN [exc |-> part_name.exc]
    ELSE [exc |-> "", fs |-> "JHFS+", name |-> part_name.name,
          size |-> [n |-> size_gb.value, unit |-> "G"]]

\* one pass of the installer loop
installer_entry(inst) ==
    entry_of(calculate_partition_size(inst.size_kb, inst.version, inst.buffer_gb),
             volume_name(inst.version, <<>>))

\* used_gb after the first n passes of the loop: 1 for the EFI partition plus
\* every size_gb
RECURSIVE used_gb(_, _)
used_gb(entries, n) ==
    IF n = 0 THEN 1 ELSE used_gb(entries, n - 1) + entries[n].size.n

\* the results of the first n passes, last installer first
RECURSIVE installer_entries_reversed(_, _)
installer_entries_reversed(insts, n) ==
    IF n = 0 THEN <<>>
    ELSE <<installer_entry(insts[n])>> \o installer_entries_reversed(insts, n - 1)

\* the results of the first n passes of the installer loop, in order
RECURSIVE installer_entries(_, _)
installer_entries(insts, n) ==
    IF n = 0 THEN <<>>
    ELSE Append(installer_entries(insts, n - 1), installer_entry(insts[n]))

\* the partition list built from the loop's results, or the first exception
\* raised in the loop
layout_of(entries, total_gb) ==
    IF \E i \in 1..Len(entries) : entries[i].exc # ""
    THEN [exc |-> entries[First({i \in 1..Len(entries) : entries[i].exc # ""})].exc,
          partitions |-> <<>>]
    ELSE [exc |-> "",
          partitions |->
              <<EFI_ENTRY>>
                  \o [i \in 1..Len(entries) |->
                         [fs |-> entries[i].fs, name |-> entries[i].name,
                          size |-> entries[i].size]]
                  \o (IF total_gb - used_gb(entries, Len(entries)) > 2
                      THEN <<DATA_ENTRY>> ELSE <<>>)]

\* the partition list create_multiboot_layout builds
layout(insts, total_gb) == layout_of(installer_entries(insts, Len(insts)), total_gb)

InitCreate ==
    /\ installers \in InstallerLists(MaxInstallers)
    /\ total_disk_gb \in DiskSizesGB
    /\ partitions = <<>>
    /\ create_result = "pending"
    /\ SizeIdle
    /\ UpdateIdle
    /\ FrontIdle

\* create_multiboot_layout: builds the list and runs diskutil partitionDisk,
\* which succeeds (True) or fails (False); an exception raised while the
\* list is built leaves the function before diskutil is run.
CreateMultibootLayout ==
    /\ create_result = "pending"
    /\ \E plan \in {layout(installers, total_disk_gb)} :
          IF plan.exc # ""
          THEN /\ partitions' = <<>>
               /\ create_result' = plan.exc
          ELSE /\ partitions' = plan.partitions
               /\ \E ok \in {"True", "False"} : create_result' = ok
    /\ UNCHANGED <<installers, total_disk_gb, sizeVars, updateVars, frontVars>>

NextCreate == CreateMultibootLayout

SpecCreate == InitCreate /\ [][NextCreate]_vars

\* diskutil partitionDisk was run with the list in partitions
PartitionDiskRun == create_result \in {"True", "False"}

\* the size in MB an installer's partition must have
RequiredMB(inst) == calculate_partition_size(inst.size_kb, inst.version, inst.buffer_gb).value

RECURSIVE SumRequiredMB(_)
SumRequiredMB(insts) ==
    IF insts = <<>> THEN 0
    ELSE RequiredMB(Head(insts)) + SumRequiredMB(Tail(insts))

\* the size in MB a diskutil size argument denotes
DenotedMB(size) == IF size.unit = "G" THEN size.n * 1024 ELSE size.n

\* C4: the list passed to diskutil partitionDisk is the fixed entry
\* (JHFS+, EFI_SYSTEM, 1G), then one JHFS+ entry per installer in the
\* caller's order, then at most one (ExFAT, DATA_STORE, R), and nothing else.
C4_LayoutShape ==
    PartitionDiskRun =>
        /\ partitions[1] = EFI_ENTRY
        /\ Len(partitions) \in {Len(installers) + 1, Len(installers) + 2}
        /\ \A i \in 1..Len(installers) :
              /\ partitions[i + 1].fs = "JHFS+"
              /\ partitions[i + 1].name = volume_name(installers[i].version, <<>>).name
              /\ partitions[i + 1].size.n = RequiredMB(installers[i])
        /\ Len(partitions) = Len(installers) + 2 =>
              partitions[Len(partitions)] = DATA_ENTRY

\* C4 witness: a list of three installers, two of them the same and one
\* different, was laid out
C4_Witness ==
    /\ PartitionDiskRun
    /\ Len(installers) = 3
    /\ installers[1] = installers[3]
    /\ installers[1] # installers[2]
    /\ RequiredMB(installers[1]) # RequiredMB(installers[2])

\* C5: the DATA_STORE entry is emitted exactly when total_disk_gb * 1024 minus
\* the MB of the EFI partition and of all installer partitions exceeds 2 GB;
\* three installers of 18000 MB on a 64 GB device give 5 entries.
C5_RemainderRule ==
    PartitionDiskRun =>
        /\ (partitions[Len(partitions)] = DATA_ENTRY)
              <=> (total_disk_gb * 1024 - (1024 + SumRequiredMB(installers)) > 2 * 1024)
        /\ (/\ total_disk_gb = 64
            /\ Len(installers) = 3
            /\ \A i \in 1..3 : RequiredMB(installers[i]) = 18000)
              => Len(partitions) = 5

\* C6: the size requested for every installer partition, read with its unit,
\* is calculate_partition_size(size_kb, version, buffer) MB.
C6_RequestedSize ==
    PartitionDiskRun =>
        \A i \in 1..Len(installers) :
            DenotedMB(partitions[i + 1].size) = RequiredMB(installers[i])

\* C7: a plan whose installers and EFI reserve exceed the device capacity is
\* not passed to diskutil partitionDisk.
C7_CapacityCheck ==
    (create_result # "pending"
        /\ 1024 + SumRequiredMB(installers) > total_disk_gb * 1024)
            => ~PartitionDiskRun

(***************************************************************************)
(* operations/updater.py: get_drive_structure                              *)
(***************************************************************************)

MaxUpdateInstallers == 2

DATA_STORE == <<"D", "A", "T", "A", "_", "S", "T", "O", "R", "E">>

\* devices as diskutil lists them: id, size and partitions (id, name, size),
\* sizes in MB (10^6 bytes)
DriveLayouts ==
    { [id |-> <<"d", "i", "s", "k", "2">>, size |-> 64000, parts |->
          << [id |-> <<"d", "i", "s", "k", "2", "s", "1">>, name |-> <<"E", "F", "I">>, size |-> 210],
             [id |-> <<"d", "i", "s", "k", "2", "s", "2">>, name |-> <<"I", "n", "s", "t", "a", "l", "l", " ", "m", "a", "c", "O", "S", " ", "S", "o", "n", "o", "m", "a">>, size |-> 18000],
             [id |-> <<"d", "i", "s", "k", "2", "s", "3">>, name |-> DATA_STORE, size |-> 10000] >>],
      [id |-> <<"d", "i", "s", "k", "2">>, size |-> 64000, parts |->
          << [id |-> <<"d", "i", "s", "k", "2", "s", "1">>, name |-> <<"E", "F", "I">>, size |-> 210],
             [id |-> <<"d", "i", "s", "k", "2", "s", "2">>, name |-> <<"I", "N", "S", "T", "A", "L", "L", "_", "H", "i", "g", "h", " ", "S", "i", "e", "r", "r", "a", "_", "1", "0", "_", "1", "3", "_", "6">>, size |-> 7000],
             [id |-> <<"d", "i", "s", "k", "2", "s", "3">>, name |-> <<"I", "N", "S", "T", "A", "L", "L", "_", "S", "i", "e", "r", "r", "a", "_", "1", "2", "_", "6", "_", "0", "6">>, size |-> 6000],
             [id |-> <<"d", "i", "s", "k", "2", "s", "4">>, name |-> DATA_STORE, size |-> 50000] >>],
      [id |-> <<"d", "i", "s", "k", "2">>, size |-> 64000, parts |->
          << [id |-> <<"d", "i", "s", "k", "2", "s", "1">>, name |-> <<"E", "F", "I">>, size |-> 210],
             [id |-> <<"d", "i", "s", "k", "2", "s", "2">>, name |-> <<"I", "n", "s", "t", "a", "l", "l", " ", "m", "a", "c", "O", "S", " ", "H", "i", "g", "h", " ", "S", "i", "e", "r", "r", "a">>, size |-> 7000],
             [id |-> <<"d", "i", "s", "k", "2", "s", "3">>, name |-> <<"I", "n", "s", "t", "a", "l", "l", " ", "m", "a", "c", "O", "S", " ", "S", "i", "e", "r", "r", "a">>, size |-> 6000] >>],
      [id |-> <<"d", "i", "s", "k", "2">>, size |-> 64000, parts |->
          << [id |-> <<"d", "i", "s", "k", "2", "s", "1">>, name |-> <<"E", "F", "I">>, size |-> 210],
             [id |-> <<"d", "i", "s", "k", "2", "s", "2">>, name |-> <<"I", "n", "s", "t", "a", "l", "l", " ", "m", "a", "c", "O", "S", " ", "S", "o", "n", "o", "m", "a">>, size |-> 16000],
             [id |-> <<"d", "i", "s", "k", "2", "s", "3">>, name |-> <<"I", "n", "s", "t", "a", "l", "l", " ", "m", "a", "c", "O", "S", " ", "S", "e", "q", "u", "o", "i", "a">>, size |-> 14000],
             [id |-> <<"d", "i", "s", "k", "2", "s", "4">>, name |-> DATA_STORE, size |-> 20000] >>],
      [id |-> <<"d", "i", "s", "k", "2">>, size |-> 64000, parts |->
          << [id |-> <<"d", "i", "s", "k", "2", "s", "1">>, name |-> <<"E", "F", "I">>, size |-> 210],
             [id |-> <<"d", "i", "s", "k", "2", "s", "2">>, name |-> <<"E", "F", "I", "_", "S", "Y", "S", "T", "E", "M">>, size |-> 1024],
             [id |-> <<"d", "i", "s", "k", "2", "s", "3">>, name |-> DATA_STORE, size |-> 62000] >>] }

\* d[key] = value on a dict kept as a sequence of pairs in insertion order
dict_set(d, key, value) ==
    IF \E i \in 1..Len(d) : d[i].key = key
    THEN [i \in 1..Len(d) |-> IF d[i].key = key THEN [key |-> key, pid |-> value] ELSE d[i]]
    ELSE Append(d, [key |-> key, pid |-> value])

\* the elif of the partition loop: the volume counts as an installer volume
is_installer_volume(vol_name) ==
    \/ Contains(vol_name, <<"I", "n", "s", "t", "a", "l", "l", " ", "m", "a", "c", "O", "S">>)
    \/ Contains(vol_name, <<"I", "N", "S", "T", "A", "L", "L", "_">>)
    \/ Contains(vol_name, <<"m", "a", "c", "O", "S">>)

clean_volume_name(vol_name) ==
    Replace(Replace(Replace(vol_name, <<"I", "n", "s", "t", "a", "l", "l", " ", "m", "a", "c", "O", "S", " ">>, <<>>), <<"I", "N", "S", "T", "A", "L", "L", "_">>, <<>>),
            <<"m", "a", "c", "O", "S", " ">>, <<>>)

\* one pass of the partition loop of get_drive_structure: info after the
\* partition p, whose volume name cleans to clean_name
scan_step(info, p, clean_name) ==
    IF p.name = DATA_STORE
    THEN [info EXCEPT !.data_partition = <<[id |-> p.id, size |-> p.size]>>,
                      !.used_size = @ + p.size]
    ELSE IF is_installer_volume(p.name)
    THEN [info EXCEPT
            !.existing_installers = dict_set(dict_set(@, clean_name, p.id), p.name, p.id),
            !.existing_partitions =
                Append(@, [name |-> p.name, clean_name |-> clean_name,
                           id |-> p.id, size |-> p.size]),
            !.used_size = @ + p.size]
    ELSE [info EXCEPT !.used_size = @ + p.size]

\* the partition loop over the first n partitions
RECURSIVE scan_partitions(_, _)
scan_partitions(parts, n) ==
    IF n = 0
    THEN [data_partition |-> <<>>, existing_installers |-> <<>>,
          existing_partitions |-> <<>>, used_size |-> 0]
    ELSE scan_step(scan_partitions(parts, n - 1), parts[n], clean_volume_name(parts[n].name))

\* info as get_drive_structure initialises it
EMPTY_INFO ==
    [data_partition |-> <<>>, existing_installers |-> <<>>,
     existing_partitions |-> <<>>, disk_size |-> 0, free_space |-> 0]

\* info after the entry whose DeviceIdentifier is disk_id, scan being the
\* result of the partition loop over it
info_of(entry, scan) ==
    [data_partition |-> scan.data_partition,
     existing_installers |-> scan.existing_installers,
     existing_partitions |-> scan.existing_partitions,
     disk_size |-> entry.size,
     free_space |-> entry.size - scan.used_size]

entry_info(entry) == info_of(entry, scan_partitions(entry.parts, Len(entry.parts)))

\* get_drive_structure(disk_id) over the parsed listing (AllDisksAndPartitions)
\* when diskutil list succeeded: the info dict.  The entry whose
\* DeviceIdentifier is disk_id fills it in (diskutil lists a device once); with
\* no such entry it stays as initialised.
get_drive_structure(listing, disk_id) ==
    IF \E i \in 1..Len(listing) : listing[i].id = disk_id
    THEN entry_info(listing[First({i \in 1..Len(listing) : listing[i].id = disk_id})])
    ELSE EMPTY_INFO

\* a get_drive_structure whose handlers return the initialised info instead
\* of None
structure_or_empty(read_ok, info) == IF read_ok THEN <<info>> ELSE <<EMPTY_INFO>>

\* what get_drive_structure returns: info, the result of its try block, when
\* diskutil list ran and its output parsed (read_ok), None from its except
\* handlers otherwise
structure_or_none(read_ok, info) == IF read_ok THEN <<info>> ELSE <<>>

\* what diskutil list -plist <disk_id> prints for the device in disk: the
\* device's entry, or nothing for an identifier that names no device (the
\* command then exits with an error)
diskutil_list(disk_id) == IF disk_id = disk.id THEN <<disk>> ELSE <<>>

(***************************************************************************)
(* ui/gui_tkinter.py: the planning loop of run_update_thread               *)
(***************************************************************************)

\* the matching without its containment loop: the exact key or None
match_existing_exact_only(existing_map, new_os_name) ==
    IF \E i \in 1..Len(existing_map) : existing_map[i].key = new_os_name
    THEN <<existing_map[First({i \in 1..Len(existing_map) :
                                  existing_map[i].key = new_os_name})].pid>>
    ELSE <<>>

\* match_id for new_os_name: the exact key, else the first key (in insertion
\* order) that contains it; <<>> = None
match_existing(existing_map, new_os_name) ==
    IF \E i \in 1..Len(existing_map) : existing_map[i].key = new_os_name
    THEN <<existing_map[First({i \in 1..Len(existing_map) :
                                  existing_map[i].key = new_os_name})].pid>>
    ELSE IF \E i \in 1..Len(existing_map) : Contains(existing_map[i].key, new_os_name)
    THEN <<existing_map[First({i \in 1..Len(existing_map) :
                                  Contains(existing_map[i].key, new_os_name)})].pid>>
    ELSE <<>>

\* the action appended for inst, match_id being the result of the matching
action_of(inst, match_id) ==
    IF match_id # <<>>
    THEN [exc |-> "", type |-> "replace", installer |-> inst, target |-> match_id[1]]
    ELSE [exc |-> "", type |-> "add", installer |-> inst, target |-> <<>>]

\* one pass of the planning loop, new_os_name being the result of
\* get_os_name; exc when that raised
plan_for(existing_map, inst, new_os_name) ==
    IF new_os_name.exc # "" THEN [exc |-> new_os_name.exc]
    ELSE action_of(inst, match_existing(existing_map, new_os_name.name))

plan_action(existing_map, inst) ==
    plan_for(existing_map, inst, get_os_name(inst.version, inst.name))

\* the first n passes of the planning loop
RECURSIVE plan_actions(_, _, _)
plan_actions(existing_map, insts, n) ==
    IF n = 0 THEN <<>>
    ELSE Append(plan_actions(existing_map, insts, n - 1), plan_action(existing_map, insts[n]))

(***************************************************************************)
(* The device under diskutil's partition commands.                         *)
(***************************************************************************)

DigitChars == <<"0", "1", "2", "3", "4", "5", "6", "7", "8", "9">>

\* str(n) for 0 <= n < 100
Str(n) == IF n < 10 THEN <<DigitChars[n + 1]>>
          ELSE <<DigitChars[(n \div 10) + 1], DigitChars[(n % 10) + 1]>>

\* the sizes of the first n partitions
RECURSIVE SumSizes(_, _)
SumSizes(parts, n) == IF n = 0 THEN 0 ELSE SumSizes(parts, n - 1) + parts[n].size

free_mb(d) == d.size - SumSizes(d.parts, Len(d.parts))

\* the identifier diskutil gives the next partition created on d
next_slice(d) == d.id \o <<"s">> \o Str(Len(d.parts) + 1)

part_index(d, part_id) == First({i \in 1..Len(d.parts) : d.parts[i].id = part_id})

\* diskutil eraseVolume JHFS+ <name> <part_id> on d: the volume is renamed
erase_volume(d, part_id, name) ==
    [d EXCEPT !.parts = [i \in 1..Len(d.parts) |->
        IF d.parts[i].id = part_id THEN [d.parts[i] EXCEPT !.name = name] ELSE d.parts[i]]]

\* diskutil addPartition <disk> <fs> <name> <size>M on d (size 0: all free space)
add_partition(d, name, size_mb) ==
    [d EXCEPT !.parts = Append(@, [id |-> next_slice(d), name |-> name,
                                   size |-> IF size_mb = 0 THEN free_mb(d) ELSE size_mb])]

\* diskutil splitPartition <part_id> 2 JHFS+ <name> <size>M ExFAT DATA_STORE R
\* on d, part_id being partition k: the partition becomes the new volume,
\* followed by the remainder
split_at_index(d, k, name, size_mb) ==
    [d EXCEPT !.parts =
        SubSeq(d.parts, 1, k - 1)
            \o << [id |-> d.parts[k].id, name |-> name, size |-> size_mb],
                  [id |-> next_slice(d), name |-> DATA_STORE,
                   size |-> d.parts[k].size - size_mb] >>
            \o SubSeq(d.parts, k + 1, Len(d.parts))]

split_volume(d, part_id, name, size_mb) ==
    split_at_index(d, part_index(d, part_id), name, size_mb)

\* whether diskutil can carry the command out on d
can_add(d, size_mb) == free_mb(d) >= size_mb /\ free_mb(d) > 0

can_split_at(d, k, size_mb) == k # 0 /\ d.parts[k].size > size_mb

can_split(d, part_id, size_mb) == can_split_at(d, part_index(d, part_id), size_mb)

\* the outcomes a diskutil command can have
Outcomes(possible) == IF possible THEN BOOLEAN ELSE {FALSE}

Command(cmd, target, name, size_mb, ok) ==
    [cmd |-> cmd, target |-> target, name |-> name, size_mb |-> size_mb, ok |-> ok]

\* 2e9 bytes, in MB
RESTORE_THRESHOLD_MB == 2000

(***************************************************************************)
(* ui/gui_tkinter.py: update_space_usage in update mode, which enables or  *)
(* disables the button that starts the update.                             *)
(***************************************************************************)

\* clean_name of a selected installer
installer_clean_name(name) ==
    Replace(Replace(Replace(name, <<"I", "n", "s", "t", "a", "l", "l", " ", "m", "a", "c", "O", "S", " ">>, <<>>), <<"I", "n", "s", "t", "a", "l", "l", " ">>, <<>>),
            <<".", "a", "p", "p">>, <<>>)

\* the first segment still of type 'existing' whose clean name contains
\* clean_name or is contained in it; 0 when there is none
segment_to_replace(parts, replaced, clean_name) ==
    First({p \in 1..Len(parts) :
              /\ p \notin replaced
              /\ \/ Contains(parts[p].clean_name, clean_name)
                 \/ Contains(clean_name, parts[p].clean_name)})

\* installer_size_mb * 1.02 > replace_target_size_mb, the test that colours a
\* replaced segment red
too_large_for(size_kb, target_size_mb) == CeilDiv(size_kb * 102, 1024) > target_size_mb * 100

\* the pass of the loop over the selected installers for inst once its
\* segment p (0: none) and the size of its new partition are known
usage_with(usage, parts, inst, p, size) ==
    IF p # 0
    THEN [usage EXCEPT !.replaced = @ \cup {p},
                       !.red = @ \/ too_large_for(inst.size_kb, parts[p].size)]
    ELSE IF size.exc # "" THEN [usage EXCEPT !.exc = size.exc]
    ELSE [usage EXCEPT !.total_required_mb = @ + size.value]

usage_step(usage, parts, inst) ==
    usage_with(usage, parts, inst,
               segment_to_replace(parts, usage.replaced, installer_clean_name(inst.name)),
               calculate_partition_size(inst.size_kb, inst.version, inst.buffer_gb))

\* the loop over the first n selected installers
RECURSIVE space_usage(_, _, _)
space_usage(parts, insts, n) ==
    IF n = 0 THEN [replaced |-> {}, red |-> FALSE, total_required_mb |-> 0, exc |-> ""]
    ELSE usage_step(space_usage(parts, insts, n - 1), parts, insts[n])

\* free_gb of the available-space logic, in MB of 10^6 bytes
available_mb(s) ==
    s.free_space + (IF s.data_partition # <<>> THEN s.data_partition[1].size ELSE 0)

\* can_proceed for the usage of the selection on the drive structure s:
\* total_required_gb (MB / 1024) must not exceed available_gb (bytes / 1e9)
\* and no replaced segment may be red
proceed_with(usage, s) ==
    /\ usage.exc = ""
    /\ ~(usage.total_required_mb * 1000 > available_mb(s) * 1024)
    /\ ~usage.red

can_proceed(s, insts) ==
    proceed_with(space_usage(s.existing_partitions, insts, Len(insts)), s)

(***************************************************************************)
(* Update mode: ui/gui_tkinter.py run_update_thread, main.py               *)
(* mode_update_existing, operations/updater.py                             *)
(***************************************************************************)

InitUpdate ==
    /\ disk \in DriveLayouts
    /\ installers \in InstallerLists(MaxUpdateInstallers)
    /\ update_ui \in {"gui", "cli"}
    /\ update_pc = "start"
    /\ structure = <<>>
    /\ actions = <<>>
    /\ action_index = 0
    /\ current_part = <<>>
    /\ new_partitions = <<>>
    /\ split_result = <<>>
    /\ commands = <<>>
    /\ SizeIdle
    /\ CreateIdle
    /\ FrontIdle

\* run_update_thread up to the end of the planning loop, started with the
\* button that update_space_usage enables for the structure read when the
\* drive was selected: a failed read ends the run; an exception in planning
\* is caught by the outer handler
GuiAnalyze ==
    /\ update_ui = "gui" /\ update_pc = "start"
    /\ can_proceed(get_drive_structure(diskutil_list(disk.id), disk.id), installers)
    /\ \E read_ok \in BOOLEAN :
       \E read \in {structure_or_none(read_ok,
                        get_drive_structure(diskutil_list(disk.id), disk.id))} :
          IF read = <<>>
          THEN /\ update_pc' = "done"
               /\ UNCHANGED <<structure, actions, action_index>>
          ELSE \E s \in {read[1]} :
               \E plan \in {plan_actions(s.existing_installers, installers,
                                         Len(installers))} :
                  /\ structure' = <<s>>
                  /\ IF \E i \in 1..Len(plan) : plan[i].exc # ""
                     THEN /\ update_pc' = "error"
                          /\ UNCHANGED <<actions, action_index>>
                     ELSE /\ actions' = plan
                          /\ action_index' = 1
                          /\ update_pc' = "execute"
    /\ UNCHANGED <<disk, update_ui, current_part, new_partitions, split_result, commands,
                   installers, sizeVars, createVars, frontVars>>

\* one pass of the action loop of run_update_thread: replace_existing_partition
\* or add_partition_to_free_space(disk_id, [inst]); a failed command skips the
\* installer, an exception ends the run in the outer handler.  The
\* installation that follows a successful command is not followed here:
\* nothing below reads what it changes.
GuiExecute ==
    /\ update_ui = "gui" /\ update_pc = "execute" /\ action_index <= Len(actions)
    /\ \E action \in {actions[action_index]} :
       \E size_mb \in {calculate_partition_size(action.installer.size_kb,
                                                action.installer.version,
                                                action.installer.buffer_gb)} :
       \E part_name \in {volume_name(action.installer.version, action.installer.name)} :
          IF action.type = "replace"
          THEN IF part_name.exc # ""
               THEN /\ update_pc' = "error"
                    /\ UNCHANGED <<disk, commands, action_index>>
               ELSE \E ok \in BOOLEAN :
                       /\ commands' = Append(commands,
                              Command("eraseVolume", action.target, part_name.name, 0, ok))
                       /\ disk' = IF ok THEN erase_volume(disk, action.target, part_name.name)
                                  ELSE disk
                       /\ action_index' = action_index + 1
                       /\ UNCHANGED update_pc
          ELSE IF size_mb.exc # "" \/ part_name.exc # ""
               THEN /\ update_pc' = "error"
                    /\ UNCHANGED <<disk, commands, action_index>>
               ELSE \E ok \in Outcomes(can_add(disk, size_mb.value)) :
                       /\ commands' = Append(commands,
                              Command("addPartition", disk.id, part_name.name,
                                      size_mb.value, ok))
                       /\ disk' = IF ok THEN add_partition(disk, part_name.name, size_mb.value)
                                  ELSE disk
                       /\ action_index' = action_index + 1
                       /\ UNCHANGED update_pc
    /\ UNCHANGED <<update_ui, structure, actions, current_part, new_partitions, split_result,
                   installers, sizeVars, createVars, frontVars>>

\* the end of run_update_thread: with more than 2e9 bytes free at analysis
\* time and still free after a new read, restore_data_partition adds a
\* DATA_STORE partition over the free space
GuiFinish ==
    /\ update_ui = "gui" /\ update_pc = "execute" /\ action_index > Len(actions)
    /\ update_pc' = "done"
    /\ IF structure[1].free_space > RESTORE_THRESHOLD_MB
       THEN \E read_ok \in BOOLEAN :
            \E structure_new \in {structure_or_none(read_ok,
                                      get_drive_structure(diskutil_list(disk.id), disk.id))} :
               IF structure_new # <<>> /\ structure_new[1].free_space > RESTORE_THRESHOLD_MB
               THEN \E ok \in BOOLEAN :
                       /\ commands' = Append(commands,
                              Command("addPartition", disk.id, DATA_STORE, 0, ok))
                       /\ disk' = IF ok THEN add_partition(disk, DATA_STORE, 0) ELSE disk
               ELSE UNCHANGED <<disk, commands>>
       ELSE UNCHANGED <<disk, commands>>
    /\ UNCHANGED <<update_ui, structure, actions, action_index, current_part, new_partitions,
                   split_result, installers, sizeVars, createVars, frontVars>>

\* mode_update_existing up to the installer selection: a failed read exits;
\* with no DATA_STORE partition the user either stops, or continues into
\* structure['data_partition']['id'] of the confirmation step, which raises
CliAnalyze ==
    /\ update_ui = "cli" /\ update_pc = "start"
    /\ \E read_ok \in BOOLEAN :
       \E read \in {structure_or_none(read_ok,
                        get_drive_structure(diskutil_list(disk.id), disk.id))} :
          IF read = <<>>
          THEN /\ update_pc' = "exit"
               /\ UNCHANGED structure
          ELSE \E s \in {read[1]} :
                  /\ structure' = <<s>>
                  /\ IF s.data_partition = <<>>
                     THEN \E continue \in BOOLEAN :
                             update_pc' = IF continue THEN "error" ELSE "exit"
                     ELSE update_pc' = "confirm"
    /\ UNCHANGED <<disk, update_ui, actions, action_index, current_part, new_partitions,
                   split_result, commands, installers, sizeVars, createVars, frontVars>>

\* after the selection of the new installers: confirm_destructive_action,
\* which returns whether ERASE was typed, then the call of split_partition on the
\* DATA_STORE identifier
CliConfirm ==
    /\ update_ui = "cli" /\ update_pc = "confirm" /\ installers # <<>>
    /\ \E confirmed \in BOOLEAN :
          /\ erase_typed' = confirmed
          /\ IF confirmed
             THEN /\ update_pc' = "split"
                  /\ current_part' = structure[1].data_partition[1].id
                  /\ action_index' = 1
             ELSE /\ update_pc' = "exit"
                  /\ UNCHANGED <<current_part, action_index>>
    /\ UNCHANGED <<disk, update_ui, structure, actions, new_partitions, split_result,
                   commands, installers, sizeVars, createVars, cliVars, machine, show_all, usb_drives,
                   selected_disk, is_safe, guiVars>>

\* the new read inside split_partition, of get_drive_structure(
\* current_part.split('s')[0]) on the device d: the listing diskutil prints
\* for that identifier
reread_listing(d, part_id) == IF Split(part_id, "s")[1] = d.id THEN <<d>> ELSE <<>>

reread_structure(d, part_id) ==
    get_drive_structure(reread_listing(d, part_id), Split(part_id, "s")[1])

\* one pass of the loop of split_partition: the split, and before the next
\* installer the new read.  A failed split returns None; a failed read or a
\* structure without data partition returns the list so far.
SplitPartition ==
    /\ update_ui = "cli" /\ update_pc = "split"
    /\ \E inst \in {installers[action_index]} :
       \E size_mb \in {calculate_partition_size(inst.size_kb, inst.version,
                                                inst.buffer_gb)} :
       \E part_name \in {volume_name(inst.version, inst.name)} :
          IF size_mb.exc # "" \/ part_name.exc # ""
          THEN /\ update_pc' = "error"
               /\ UNCHANGED <<disk, commands, new_partitions, split_result, current_part,
                              action_index>>
          ELSE \E ok \in Outcomes(can_split(disk, current_part, size_mb.value)) :
                  /\ commands' = Append(commands,
                         Command("splitPartition", current_part, part_name.name,
                                 size_mb.value, ok))
                  /\ IF ~ok
                     THEN /\ split_result' = <<[none |-> TRUE, partitions |-> <<>>]>>
                          /\ update_pc' = "returned"
                          /\ UNCHANGED <<disk, new_partitions, current_part, action_index>>
                     ELSE \E d \in {split_volume(disk, current_part, part_name.name,
                                                 size_mb.value)} :
                          \E created \in {Append(new_partitions,
                                                 [name |-> part_name.name,
                                                  installer |-> inst])} :
                             /\ disk' = d
                             /\ new_partitions' = created
                             /\ IF action_index = Len(installers)
                                THEN /\ split_result' =
                                            <<[none |-> FALSE, partitions |-> created]>>
                                     /\ update_pc' = "returned"
                                     /\ UNCHANGED <<current_part, action_index>>
                                ELSE \E read_ok \in
                                         Outcomes(reread_listing(d, current_part) # <<>>) :
                                     \E s \in {reread_structure(d, current_part)} :
                                        IF read_ok /\ s.data_partition # <<>>
                                        THEN /\ current_part' = s.data_partition[1].id
                                             /\ action_index' = action_index + 1
                                             /\ UNCHANGED <<split_result, update_pc>>
                                        ELSE /\ split_result' =
                                                    <<[none |-> FALSE,
                                                       partitions |-> created]>>
                                             /\ update_pc' = "returned"
                                             /\ UNCHANGED <<current_part, action_index>>
    /\ UNCHANGED <<update_ui, structure, actions, installers, sizeVars, createVars, frontVars>>

\* mode_update_existing after split_partition returned: "if not new_parts"
\* (None or an empty list) exits; otherwise the installation of the
\* partitions in the list follows
CliAfterSplit ==
    /\ update_ui = "cli" /\ update_pc = "returned"
    /\ update_pc' = IF split_result[1].none \/ split_result[1].partitions = <<>>
                    THEN "exit" ELSE "install"
    /\ UNCHANGED <<disk, update_ui, structure, actions, action_index, current_part,
                   new_partitions, split_result, commands, installers, sizeVars, createVars,
                   frontVars>>

NextUpdate ==
    \/ GuiAnalyze
    \/ GuiExecute
    \/ GuiFinish
    \/ CliAnalyze
    \/ CliConfirm
    \/ SplitPartition
    \/ CliAfterSplit

SpecUpdate == InitUpdate /\ [][NextUpdate]_vars

(***************************************************************************)
(* Volume names: every place that generates an installer volume name.      *)
(***************************************************************************)

InitNames == InitCreate \/ InitUpdate

NextNames == NextCreate \/ NextUpdate

\* create mode and update mode side by side: a run is one or the other
SpecNames == InitNames /\ [][NextNames]_vars

\* a generated installer volume name is well formed
WellFormedName(name) == StartsWith(name, <<"I", "N", "S", "T", "A", "L", "L", "_">>) /\ Len(name) <= 27

\* C8: every installer volume name generated by create_multiboot_layout (the
\* JHFS+ entries after the first) and by split_partition,
\* add_partition_to_free_space and replace_existing_partition (the names in
\* their diskutil commands) starts with INSTALL_ and has at most 27
\* characters; in the layout it is INSTALL_<OsName>_<version with dots
\* replaced by underscores, cut at the first space> truncated to 27.
C8_VolumeNames ==
    /\ PartitionDiskRun =>
          \A i \in 1..Len(installers) :
              /\ WellFormedName(partitions[i + 1].name)
              /\ partitions[i + 1].name =
                    Slice(<<"I", "N", "S", "T", "A", "L", "L", "_">> \o get_os_name(installers[i].version, <<>>).name
                              \o <<"_">>
                              \o Split(Replace(installers[i].version, <<".">>, <<"_">>), " ")[1],
                          27)
    /\ \A c \in 1..Len(commands) :
          commands[c].name # DATA_STORE => WellFormedName(commands[c].name)

\* C8 witness: a layout was built in which a name longer than 27 characters
\* was cut (High Sierra, 10.13.6-RC1)
C8_Witness ==
    /\ PartitionDiskRun
    /\ \E i \in 1..Len(installers) :
          /\ installers[i].version = <<"1", "0", ".", "1", "3", ".", "6", "-", "R", "C", "1">>
          /\ partitions[i + 1].name = <<"I", "N", "S", "T", "A", "L", "L", "_", "H", "i", "g", "h", " ", "S", "i", "e", "r", "r", "a", "_", "1", "0", "_", "1", "3", "_", "6">>
          /\ Len(<<"I", "N", "S", "T", "A", "L", "L", "_">> \o get_os_name(installers[i].version, <<>>).name \o <<"_">>
                    \o SplitWords(Replace(installers[i].version, <<".">>, <<"_">>))[1]) > 27

(***************************************************************************)
(* Update-mode planning.                                                   *)
(***************************************************************************)

\* the planning loop of run_update_thread has run to its end
Planned == update_ui = "gui" /\ update_pc = "execute"

\* the installer partitions of the analysed drive whose volume name contains
\* the OS name
matching_partitions(os_name) ==
    {p \in 1..Len(structure[1].existing_partitions) :
        Contains(structure[1].existing_partitions[p].name, os_name)}

\* C9: after planning, an installer whose OS name occurs in the volume name
\* of an existing installer partition has a replace action whose target is
\* the identifier of such a partition (of the one named exactly after the OS
\* when there is one), and no add action; the Sonoma installer with the
\* partition "Install macOS Sonoma" at disk2s2 is to replace disk2s2.
C9_MatchReplaces ==
    Planned =>
        \A i \in 1..Len(actions) :
            /\ actions[i].installer = installers[i]
            /\ matching_partitions(get_os_name(installers[i].version,
                                               installers[i].name).name) # {} =>
                  /\ actions[i].type = "replace"
                  /\ \E p \in matching_partitions(get_os_name(installers[i].version,
                                                              installers[i].name).name) :
                        actions[i].target = structure[1].existing_partitions[p].id
                  /\ \A p \in 1..Len(structure[1].existing_partitions) :
                        (/\ structure[1].existing_partitions[p].name = <<"I", "n", "s", "t", "a", "l", "l", " ", "m", "a", "c", "O", "S", " ", "S", "o", "n", "o", "m", "a">>
                         /\ installers[i].name = <<"I", "n", "s", "t", "a", "l", "l", " ", "m", "a", "c", "O", "S", " ", "S", "o", "n", "o", "m", "a", ".", "a", "p", "p">>)
                            => actions[i].target = structure[1].existing_partitions[p].id

\* C9 witness: planning gave a replace action against disk2s2 for the Sonoma
\* installer on a drive whose partition disk2s2 is "Install macOS Sonoma"
C9_Witness ==
    /\ Planned
    /\ \E i \in 1..Len(actions) :
          /\ installers[i].name = <<"I", "n", "s", "t", "a", "l", "l", " ", "m", "a", "c", "O", "S", " ", "S", "o", "n", "o", "m", "a", ".", "a", "p", "p">>
          /\ actions[i].type = "replace"
          /\ actions[i].target = <<"d", "i", "s", "k", "2", "s", "2">>
          /\ \E p \in 1..Len(structure[1].existing_partitions) :
                /\ structure[1].existing_partitions[p].name = <<"I", "n", "s", "t", "a", "l", "l", " ", "m", "a", "c", "O", "S", " ", "S", "o", "n", "o", "m", "a">>
                /\ structure[1].existing_partitions[p].id = <<"d", "i", "s", "k", "2", "s", "2">>

\* C10: an installer partition is added by splitPartition when the analysed
\* drive has a DATA_STORE partition and by addPartition only when it has none.
C10_SplitOrAdd ==
    \A c \in 1..Len(commands) :
        (commands[c].cmd \in {"addPartition", "splitPartition"}
            /\ commands[c].name # DATA_STORE)
                => (commands[c].cmd = "splitPartition"
                        <=> structure[1].data_partition # <<>>)


\* C11: in the graphical update, every eraseVolume command that carries out a
\* replace action targets a partition at least as large as the size
\* calculate_partition_size requires for the action's installer.
C11_ReplaceFits ==
    update_ui = "gui" =>
        \A c \in 1..Len(commands) :
            (c <= Len(actions) /\ commands[c].cmd = "eraseVolume") =>
                \A p \in 1..Len(structure[1].existing_partitions) :
                    structure[1].existing_partitions[p].id = commands[c].target
                        => RequiredMB(actions[c].installer)
                               <= structure[1].existing_partitions[p].size

\* C12: split_partition goes on to the next installer after a successful
\* split: it returns a list shorter than the installers only when the device
\* that owns the data partition has no DATA_STORE partition left.
C12_SplitsOneByOne ==
    (/\ update_ui = "cli" /\ update_pc = "returned"
     /\ ~split_result[1].none
     /\ Len(split_result[1].partitions) < Len(installers))
        => get_drive_structure(<<disk>>, disk.id).data_partition = <<>>

\* C13: once a batch has ended, a failed partition command for an installer
\* that is not the last one is followed by the command for the next
\* installer.
C13_LaterAttempted ==
    update_pc \in {"returned", "done"} =>
        \A c \in 1..Len(commands) :
            (~commands[c].ok /\ c < Len(installers)) => Len(commands) > c

(***************************************************************************)
(* operations/updater.py: add_partition_to_free_space(disk_id,             *)
(* new_installers) called with a list of installers.  split_result holds   *)
(* the value the function returns, new_partitions its local list.          *)
(***************************************************************************)

InitAdd ==
    /\ disk \in DriveLayouts
    /\ installers \in InstallerLists(MaxUpdateInstallers)
    /\ update_ui = "call"
    /\ update_pc = "add"
    /\ structure = <<>>
    /\ actions = <<>>
    /\ action_index = 1
    /\ current_part = <<>>
    /\ new_partitions = <<>>
    /\ split_result = <<>>
    /\ commands = <<>>
    /\ SizeIdle
    /\ CreateIdle
    /\ FrontIdle

\* one pass of the loop of add_partition_to_free_space: a failed command
\* returns None, an exception of the size or name computation leaves the
\* function
AddPartitionToFreeSpace ==
    /\ update_ui = "call" /\ update_pc = "add" /\ action_index <= Len(installers)
    /\ \E inst \in {installers[action_index]} :
       \E size_mb \in {calculate_partition_size(inst.size_kb, inst.version,
                                                inst.buffer_gb)} :
       \E part_name \in {volume_name(inst.version, inst.name)} :
          IF size_mb.exc # "" \/ part_name.exc # ""
          THEN /\ update_pc' = "error"
               /\ UNCHANGED <<disk, commands, new_partitions, split_result, action_index>>
          ELSE \E ok \in Outcomes(can_add(disk, size_mb.value)) :
                  /\ commands' = Append(commands,
                         Command("addPartition", disk.id, part_name.name,
                                 size_mb.value, ok))
                  /\ IF ok
                     THEN /\ disk' = add_partition(disk, part_name.name, size_mb.value)
                          /\ new_partitions' = Append(new_partitions,
                                 [name |-> part_name.name, installer |-> inst])
                          /\ action_index' = action_index + 1
                          /\ UNCHANGED <<split_result, update_pc>>
                     ELSE /\ split_result' = <<[none |-> TRUE, partitions |-> <<>>]>>
                          /\ update_pc' = "returned"
                          /\ UNCHANGED <<disk, new_partitions, action_index>>
    /\ UNCHANGED <<update_ui, structure, actions, current_part, installers, sizeVars,
                   createVars, frontVars>>

\* the return after the loop
AddReturn ==
    /\ update_ui = "call" /\ update_pc = "add" /\ action_index > Len(installers)
    /\ split_result' = <<[none |-> FALSE, partitions |-> new_partitions]>>
    /\ update_pc' = "returned"
    /\ UNCHANGED <<disk, update_ui, structure, actions, action_index, current_part,
                   new_partitions, commands, installers, sizeVars, createVars, frontVars>>

NextAdd ==
    \/ AddPartitionToFreeSpace
    \/ AddReturn

SpecAdd == InitAdd /\ [][NextAdd]_vars

\* C14: the value add_partition_to_free_space returns holds every partition
\* it created on the device.
C14_CreatedAreReturned ==
    (update_ui = "call" /\ update_pc = "returned" /\ new_partitions # <<>>)
        => (~split_result[1].none /\ split_result[1].partitions = new_partitions)

(***************************************************************************)
(* operations/updater.py: get_drive_structure(disk_id) called with any     *)
(* identifier.  current_part holds the argument, structure the returned    *)
(* value (empty for None).                                                 *)
(***************************************************************************)

\* identifiers passed as disk_id: the device, another device, the cut
\* identifier split_partition passes, partitions of the device, nothing
DiskIds ==
    {<<"d", "i", "s", "k", "2">>, <<"d", "i", "s", "k", "3">>, <<"d", "i">>, <<"d", "i", "s", "k", "2", "s", "1">>, <<"d", "i", "s", "k", "2", "s", "2">>, <<"d", "i", "s", "k", "2", "s", "3">>, <<"d", "i", "s", "k", "2", "s", "4">>, <<>>}

InitRead ==
    /\ disk \in DriveLayouts
    /\ current_part \in DiskIds
    /\ update_ui = "call"
    /\ update_pc = "read"
    /\ installers = <<>>
    /\ structure = <<>>
    /\ actions = <<>>
    /\ action_index = 0
    /\ new_partitions = <<>>
    /\ split_result = <<>>
    /\ commands = <<>>
    /\ SizeIdle
    /\ CreateIdle
    /\ FrontIdle

\* get_drive_structure(current_part): diskutil list fails or its output does
\* not parse (None), or it prints a listing, with or without the device
GetDriveStructure ==
    /\ update_ui = "call" /\ update_pc = "read"
    /\ \E read_ok \in BOOLEAN :
       \E listing \in {<<>>, <<disk>>} :
          structure' = structure_or_none(read_ok,
                                         get_drive_structure(listing, current_part))
    /\ update_pc' = "returned"
    /\ UNCHANGED <<disk, update_ui, actions, action_index, current_part, new_partitions,
                   split_result, commands, installers, sizeVars, createVars, frontVars>>

NextRead == GetDriveStructure

SpecRead == InitRead /\ [][NextRead]_vars

\* C15: get_drive_structure returns None for an identifier that is not the
\* identifier of a device in the listing.
C15_NoneWhenNotFound ==
    (update_ui = "call" /\ update_pc = "returned" /\ current_part # disk.id)
        => structure = <<>>

\* C16: a partition-modifying command is issued in an update run only after
\* the run's get_drive_structure returned the structure read from the device;
\* after a failed read (None) none is issued.
C16_AbortOnFailedRead ==
    (update_ui \in {"gui", "cli"} /\ commands # <<>>)
        => (structure # <<>> /\ structure[1].disk_size = disk.size)

\* a graphical run that ended at its failed read
C16_Witness ==
    /\ update_ui = "gui" /\ update_pc = "done"
    /\ structure = <<>> /\ commands = <<>>

(***************************************************************************)
(* core/constants.py _extract_version_key and detection/version_parser.py  *)
(* parse_version, called on a version string.                              *)
(***************************************************************************)

\* int(parts[i]) if len(parts) > i else 0, for i counted from 1; <<>> when
\* int() raises ValueError
component(parts, i) ==
    IF Len(parts) < i THEN <<0>>
    ELSE IF IsInt(parts[i]) THEN <<IntOf(parts[i])>>
    ELSE <<>>

\* the tuple for the three components, (0, 0, 0) when one of them raised
version_tuple(major, minor, patch) ==
    IF major = <<>> \/ minor = <<>> \/ patch = <<>> THEN <<0, 0, 0>>
    ELSE <<major[1], minor[1], patch[1]>>

\* a parse_version that reads the patch from the second component
tuple_of_parts_patch_from_minor(parts) ==
    version_tuple(component(parts, 1), component(parts, 2), component(parts, 2))

\* the try block of parse_version over parts = clean.split('.')
tuple_of_parts(parts) ==
    version_tuple(component(parts, 1), component(parts, 2), component(parts, 3))

\* parse_version: exc = "IndexError" when the call raises, else the tuple.
\* version_string.split()[0] is evaluated before the try block.
parse_version(v) ==
    IF SplitWords(v) = <<>> THEN [exc |-> "IndexError", value |-> <<>>]
    ELSE [exc |-> "",
          value |-> tuple_of_parts(Split(Split(SplitWords(v)[1], "-")[1], "."))]

\* version strings of the unit tests and of the documentation
DocumentedVersions ==
    { <<"1", "4", ".", "6", ".", "1", " ", "B", "e", "t", "a", " ", "3">>, <<"1", "4", ".", "6", ".", "1", " ", "B", "e", "t", "a">>, <<"1", "5", ".", "2", " ", "B", "e", "t", "a">>, <<"1", "5", ".", "0", " ", "B", "e", "t", "a", " ", "3">>, <<"1", "0", ".", "1", "5", ".", "7">>,
      <<"1", "0", ".", "1", "5", ".", "7", "-", "a", "l", "p", "h", "a">>, <<"1", "5">>, <<"1", "5", ".", "2">>, <<"1", "4", ".", "6", ".", "1", ".", "2">>, <<" ", "1", "4", ".", "0">>, <<"1", "1", ".", "0", ".", "1">>, <<"0", "1", "4", ".", "1">> }

VersionInputs == VersionStrings \cup NamedVersions \cup DocumentedVersions

InitVersion ==
    /\ version_string \in VersionInputs
    /\ installer_size_kb = 0
    /\ override_buffer_gb = <<>>
    /\ size_result = [status |-> "idle", value |-> 0]
    /\ version_key = <<>>
    /\ parsed_version = <<>>
    /\ installers = <<>>
    /\ CreateIdle
    /\ UpdateIdle
    /\ FrontIdle

ExtractVersionKey ==
    /\ version_key = <<>>
    /\ version_key' = <<_extract_version_key(version_string)>>
    /\ UNCHANGED <<version_string, installer_size_kb, override_buffer_gb, size_result,
                   parsed_version, installers, createVars, updateVars, frontVars>>

ParseVersion ==
    /\ parsed_version = <<>>
    /\ parsed_version' = <<parse_version(version_string)>>
    /\ UNCHANGED <<version_string, installer_size_kb, override_buffer_gb, size_result,
                   version_key, installers, createVars, updateVars, frontVars>>

NextVersion ==
    \/ ExtractVersionKey
    \/ ParseVersion

SpecVersion == InitVersion /\ [][NextVersion]_vars

\* C17: the version key is the key of the text before the first space and
\* the first hyphen of the version string; when that text starts with an
\* integer of 11 or more the key is that first component, and when it is
\* "10" followed by a second component the key is "10." and that component.
C17_KeyFromLeadingPart ==
    version_key # <<>> =>
        \A n \in 1..Len(version_string) :
            (/\ \A i \in 1..n : version_string[i] \notin {" ", "-"}
             /\ n < Len(version_string) => version_string[n + 1] \in {" ", "-"})
                => \A parts \in {Split(Slice(version_string, n), ".")} :
                      /\ version_key[1].exc = ""
                      /\ version_key[1].key
                             = _extract_version_key(Slice(version_string, n)).key
                      /\ (IsInt(parts[1]) /\ IntOf(parts[1]) >= 11)
                             => version_key[1].key = parts[1]
                      /\ (parts[1] = <<"1", "0">> /\ Len(parts) >= 2)
                             => version_key[1].key = <<"1", "0", ".">> \o parts[2]

\* _extract_version_key("14.6.1 Beta 3") has returned "14"
C17_Witness ==
    /\ version_string = <<"1", "4", ".", "6", ".", "1", " ", "B", "e", "t", "a", " ", "3">>
    /\ version_key = <<[exc |-> "", key |-> <<"1", "4">>]>>

\* C18: when the first component of the cleaned version parses as an integer
\* and is not "10" followed by a second component, the key is that first
\* component.
C18_FirstComponent ==
    (version_key # <<>> /\ version_key[1].exc = "") =>
        \A parts \in {Split(Split(SplitWords(version_string)[1], "-")[1], ".")} :
            (IsInt(parts[1]) /\ ~(parts[1] = <<"1", "0">> /\ Len(parts) >= 2))
                => version_key[1].key = parts[1]

\* C19: parse_version returns the integers of the first three dot-separated
\* components of the text before the first space and the first hyphen, 0 for
\* a component that is missing.
C19_ParsedTuple ==
    parsed_version # <<>> =>
        \A n \in 1..Len(version_string) :
            (/\ \A i \in 1..n : version_string[i] \notin {" ", "-"}
             /\ n < Len(version_string) => version_string[n + 1] \in {" ", "-"})
                => \A parts \in {Split(Slice(version_string, n), ".")} :
                      (\A i \in 1..Len(parts) : i <= 3 => IsInt(parts[i]))
                          => /\ parsed_version[1].exc = ""
                             /\ parsed_version[1].value =
                                    << IntOf(parts[1]),
                                       IF Len(parts) >= 2 THEN IntOf(parts[2]) ELSE 0,
                                       IF Len(parts) >= 3 THEN IntOf(parts[3]) ELSE 0 >>

\* parse_version("10.15.7-RC") has returned (10, 15, 7)
C19_Witness ==
    /\ version_string = <<"1", "0", ".", "1", "5", ".", "7", "-", "R", "C">>
    /\ parsed_version = <<[exc |-> "", value |-> <<10, 15, 7>>]>>

\* C20: with no override, 13 GiB of payload and version "14.0" give a size
\* within 17000..20000 MB, and 14 GiB of payload and version "15.0 Beta 2" a
\* size within 18000..22000 MB.
C20_TestRanges ==
    (size_result.status # "pending" /\ override_buffer_gb = <<>>) =>
        /\ (installer_size_kb = 13 * 1024 * 1024 /\ version_string = <<"1", "4", ".", "0">>)
               => /\ size_result.status = "returned"
                  /\ size_result.value >= 17000
                  /\ size_result.value <= 20000
        /\ (installer_size_kb = 14 * 1024 * 1024 /\ version_string = <<"1", "5", ".", "0", " ", "B", "e", "t", "a", " ", "2">>)
               => /\ size_result.status = "returned"
                  /\ size_result.value >= 18000
                  /\ size_result.value <= 22000


(***************************************************************************)
(* detection/stub_validator.py.  A bundle is the part of the file system   *)
(* is_stub_installer reads under app_path: the sizes in KB of the files    *)
(* that exist (<<>> for a missing file) and what du -sk prints (<<>> when  *)
(* du fails).                                                              *)
(***************************************************************************)

STUB_THRESHOLD_MB == 50

\* an is_stub_installer that returns True at once when SharedSupport.dmg is
\* missing
is_stub_without_shared_support(b) ==
    IF b.shared_support = <<>> THEN TRUE
    ELSE /\ b.shared_support[1] <= STUB_THRESHOLD_MB * 1024
         /\ ~(b.base_system # <<>> /\ b.base_system[1] > STUB_THRESHOLD_MB * 1024)
         /\ ~(b.install_esd # <<>> /\ b.install_esd[1] > STUB_THRESHOLD_MB * 1024)
         /\ ~(b.alt_shared_support # <<>> /\ b.alt_shared_support[1] > 4 * 1024 * 1024)
         /\ ~(b.du # <<>> /\ b.du[1] > 4000 * 1024)

\* is_large: os.path.exists(file) and getsize(file) / (1024 * 1024) >
\* STUB_THRESHOLD_MB.  Step 4, the try block: Contents/SharedSupport.dmg above
\* 4 GiB, or a bundle of more than 4000 MB; a du that fails decides nothing.
is_stub_installer(b) ==
    LET is_large(file) == file # <<>> /\ file[1] > STUB_THRESHOLD_MB * 1024
    IN  IF is_large(b.shared_support) THEN FALSE
        ELSE IF is_large(b.base_system) THEN FALSE
        ELSE IF is_large(b.install_esd) THEN FALSE
        ELSE IF b.alt_shared_support # <<>> /\ b.alt_shared_support[1] > 4 * 1024 * 1024
             THEN FALSE
        ELSE IF b.du # <<>> /\ b.du[1] > 4000 * 1024 THEN FALSE
        ELSE TRUE

\* bundles: each file missing, small, at the threshold or large
Bundles ==
    [shared_support : {<<>>, <<50 * 1024>>, <<50 * 1024 + 1>>, <<12000000>>},
     base_system : {<<>>, <<1000>>, <<500 * 1024>>},
     install_esd : {<<>>, <<50 * 1024 + 1>>},
     alt_shared_support : {<<>>, <<5000000>>},
     du : {<<>>, <<20000>>, <<4000 * 1024>>, <<4000 * 1024 + 1>>}]

\* the dict scan_for_installers returns for inst, b being the bundle at its
\* path; the scanner sets no buffer_gb
scanned_installer(inst, b) ==
    [name |-> inst.name, version |-> inst.version, size_kb |-> inst.size_kb,
     buffer_gb |-> <<>>, bundle |-> b]

(***************************************************************************)
(* safety/boot_disk_guard.py and detection/disk_detector.py.  A machine is *)
(* what diskutil answers: boot is the whole disk of the volume mounted at  *)
(* /, boot_probe the outcome of "diskutil info -plist /" ("ok", "nokey"    *)
(* for an answer without ParentWholeDisk, "fail"), list_ok and info_ok     *)
(* whether "diskutil list" and "diskutil info <partition>" succeed, and    *)
(* listing the disks diskutil lists, each with the answer of "diskutil     *)
(* info <disk>" (<<>> when it fails; TotalSize in units of 1e9 bytes) and  *)
(* the mount points of its partitions.                                     *)
(***************************************************************************)

\* is_boot_disk whose handler returns False
is_boot_disk_fail_open(disk_id, m) ==
    IF m.boot_probe = "fail" THEN FALSE
    ELSE disk_id = (IF m.boot_probe = "ok" THEN m.boot ELSE <<"d", "i", "s", "k", "0">>)

is_boot_disk(disk_id, m) ==
    IF m.boot_probe = "fail" THEN TRUE
    ELSE disk_id = (IF m.boot_probe = "ok" THEN m.boot ELSE <<"d", "i", "s", "k", "0">>)

\* diskutil list of a disk that is not there fails; the partitions are probed
\* in order, and a system mount and a failed probe both return True
has_mounted_system_volume(disk_id, m) ==
    IF ~m.list_ok \/ ~\E i \in 1..Len(m.listing) : m.listing[i].id = disk_id
    THEN TRUE
    ELSE \E i \in 1..Len(m.listing) :
            /\ m.listing[i].id = disk_id
            /\ \E k \in 1..Len(m.listing[i].mounts) :
                  \/ ~m.info_ok
                  \/ m.listing[i].mounts[k] \in {<<"/">>, <<"/", "S", "y", "s", "t", "e", "m">>, <<"/", "L", "i", "b", "r", "a", "r", "y">>, <<"/", "p", "r", "i", "v", "a", "t", "e">>}

\* is_safe of the pair validate_safe_target returns
validate_safe_target(disk_id, m) ==
    IF disk_id \in {<<"d", "i", "s", "k", "0">>, <<"d", "i", "s", "k", "1">>} THEN FALSE
    ELSE IF is_boot_disk(disk_id, m) THEN FALSE
    ELSE IF has_mounted_system_volume(disk_id, m) THEN FALSE
    ELSE TRUE

\* the loop over AllDisksAndPartitions from entry i on, boot_disk_id being
\* what _get_boot_disk_id returned; _is_valid_usb is the test of an entry
\* when show_all is False
RECURSIVE usb_drives_from(_, _, _, _)
usb_drives_from(listing, i, all, boot_disk_id) ==
    LET _is_valid_usb(info) ==
            IF \E p \in {<<"u", "s", "b">>, <<"t", "h", "u", "n", "d", "e", "r", "b", "o", "l", "t">>, <<"f", "i", "r", "e", "w", "i", "r", "e">>, <<"s", "d">>, <<"m", "m", "c">>} :
                   Contains(Lower(info.BusProtocol), p)
            THEN TRUE
            ELSE IF info.Removable THEN TRUE
            ELSE IF info.Virtual THEN FALSE
            ELSE IF info.Internal = <<>> \/ info.Internal = <<TRUE>> THEN FALSE
            ELSE TRUE
    IN  IF i > Len(listing) THEN <<>>
        ELSE IF \/ listing[i].id \in {<<"d", "i", "s", "k", "0">>, <<"d", "i", "s", "k", "1">>}
                \/ listing[i].id = boot_disk_id
                \/ listing[i].info = <<>>
                \/ (~all /\ ~_is_valid_usb(listing[i].info[1]))
                \/ (all /\ listing[i].info[1].Virtual)
             THEN usb_drives_from(listing, i + 1, all, boot_disk_id)
             ELSE <<[id |-> listing[i].id, size_gb |-> listing[i].info[1].TotalSize]>>
                      \o usb_drives_from(listing, i + 1, all, boot_disk_id)

\* no listing command succeeds: []; _get_boot_disk_id returns ParentWholeDisk,
\* and disk0 when the key is missing or the probe fails
get_external_usb_drives(all, m) ==
    IF ~m.list_ok THEN <<>>
    ELSE usb_drives_from(m.listing, 1, all,
                         IF m.boot_probe = "ok" THEN m.boot ELSE <<"d", "i", "s", "k", "0">>)

\* machines: up to two listed disks in the order of their numbers; the volume
\* mounted at / lies on the boot disk and on no other
Machines ==
    {m \in [boot : {<<"d", "i", "s", "k", "0">>, <<"d", "i", "s", "k", "2">>},
            boot_probe : {"ok", "nokey", "fail"},
            list_ok : BOOLEAN,
            info_ok : BOOLEAN,
            listing : UNION {[1..n -> [id : {<<"d", "i", "s", "k", "0">>, <<"d", "i", "s", "k", "1">>, <<"d", "i", "s", "k", "2">>, <<"d", "i", "s", "k", "3">>},
                                       info : {<<>>,
                                           <<[BusProtocol |-> <<"U", "S", "B">>, Removable |-> TRUE,
                                              Virtual |-> FALSE, Internal |-> <<FALSE>>,
                                              TotalSize |-> 64]>>,
                                           <<[BusProtocol |-> <<"S", "A", "T", "A">>, Removable |-> FALSE,
                                              Virtual |-> FALSE, Internal |-> <<>>,
                                              TotalSize |-> 500]>>,
                                           <<[BusProtocol |-> <<"D", "i", "s", "k", " ", "I", "m", "a", "g", "e">>, Removable |-> TRUE,
                                              Virtual |-> TRUE, Internal |-> <<FALSE>>,
                                              TotalSize |-> 16]>>},
                                       mounts : {<<>>, <<<<>>>>, <<<<"/", "V", "o", "l", "u", "m", "e", "s", "/", "U", "S", "B">>>>, <<<<>>, <<"/">>>>,
                                                 <<<<"/", "V", "o", "l", "u", "m", "e", "s", "/", "D", "a", "t", "a">>, <<"/", "S", "y", "s", "t", "e", "m">>>>}]] : n \in 0..2}] :
        /\ \A i \in 1..Len(m.listing) :
              (m.listing[i].id = m.boot)
                  <=> (\E k \in 1..Len(m.listing[i].mounts) : m.listing[i].mounts[k] = <<"/">>)
        /\ \A i \in 1..Len(m.listing) : \A j \in 1..Len(m.listing) :
              i < j => DigitValue(m.listing[i].id[5]) < DigitValue(m.listing[j].id[5])}

(***************************************************************************)
(* The checks of detection/ and safety/ called on their own: one call of   *)
(* is_stub_installer on a scanned bundle, or of validate_safe_target or    *)
(* get_external_usb_drives on a machine.                                   *)
(***************************************************************************)

InitDetect ==
    /\ \/ /\ scanned \in {<<scanned_installer(inst, b)>> :
                             inst \in {i \in InstallerCatalog : i.size_kb = 5400000},
                             b \in Bundles}
          /\ machine = <<>>
       \/ /\ scanned = <<>>
          /\ machine \in {<<m>> : m \in Machines}
    /\ stub_flags = <<>>
    /\ cli_mode = "none"
    /\ cli_pc = "call"
    /\ partition_num = 0
    /\ successful = <<>>
    /\ failed = <<>>
    /\ erase_typed = FALSE
    /\ show_all = FALSE
    /\ usb_drives = <<>>
    /\ selected_disk = <<>>
    /\ is_safe = <<>>
    /\ is_working = FALSE
    /\ create_btn = "disabled"
    /\ dialogs = 0
    /\ workers = 0
    /\ deleters = 0
    /\ found = <<>>
    /\ installers = <<>>
    /\ SizeIdle
    /\ CreateIdle
    /\ UpdateIdle

\* is_stub_installer(inst['path']) for the scanned installers
IsStubInstaller ==
    /\ cli_mode = "none" /\ cli_pc = "call" /\ scanned # <<>>
    /\ stub_flags' = [i \in 1..Len(scanned) |-> is_stub_installer(scanned[i].bundle)]
    /\ cli_pc' = "returned"
    /\ UNCHANGED <<scanned, cli_mode, partition_num, successful, failed, erase_typed,
                   installers, sizeVars, createVars, updateVars, machine, show_all, usb_drives,
                   selected_disk, is_safe, guiVars>>

\* validate_safe_target(disk_id)
ValidateSafeTarget ==
    /\ cli_mode = "none" /\ cli_pc = "call" /\ machine # <<>>
    /\ \E disk_id \in {<<"d", "i", "s", "k", "0">>, <<"d", "i", "s", "k", "1">>, <<"d", "i", "s", "k", "2">>, <<"d", "i", "s", "k", "3">>} :
          /\ selected_disk' = disk_id
          /\ is_safe' = <<validate_safe_target(disk_id, machine[1])>>
    /\ cli_pc' = "returned"
    /\ UNCHANGED <<scanned, stub_flags, cli_mode, partition_num, successful, failed,
                   erase_typed, machine, show_all, usb_drives, installers, sizeVars,
                   createVars, updateVars, guiVars>>

\* get_external_usb_drives(show_all)
GetExternalUsbDrives ==
    /\ cli_mode = "none" /\ cli_pc = "call" /\ machine # <<>>
    /\ \E all \in BOOLEAN :
          /\ show_all' = all
          /\ usb_drives' = <<get_external_usb_drives(all, machine[1])>>
    /\ cli_pc' = "returned"
    /\ UNCHANGED <<scanned, stub_flags, cli_mode, partition_num, successful, failed,
                   erase_typed, machine, selected_disk, is_safe, installers, sizeVars,
                   createVars, updateVars, guiVars>>

NextDetect ==
    \/ IsStubInstaller
    \/ ValidateSafeTarget
    \/ GetExternalUsbDrives

SpecDetect == InitDetect /\ [][NextDetect]_vars

\* C22: is_stub_installer returns False for a bundle in which SharedSupport.dmg,
\* BaseSystem.dmg or InstallESD.dmg under Contents/SharedSupport is larger
\* than 50 MB, whatever the other files are.
C22_LargeImageIsFull ==
    \A i \in 1..Len(stub_flags) :
        (\/ (scanned[i].bundle.shared_support # <<>>
                /\ scanned[i].bundle.shared_support[1] > 50 * 1024)
         \/ (scanned[i].bundle.base_system # <<>>
                /\ scanned[i].bundle.base_system[1] > 50 * 1024)
         \/ (scanned[i].bundle.install_esd # <<>>
                /\ scanned[i].bundle.install_esd[1] > 50 * 1024))
            => ~stub_flags[i]

\* a bundle without SharedSupport.dmg and with a BaseSystem.dmg of 500 MB was
\* found to be full
C22_Witness ==
    /\ stub_flags = <<FALSE>>
    /\ scanned[1].bundle.shared_support = <<>>
    /\ scanned[1].bundle.base_system = <<500 * 1024>>
    /\ scanned[1].bundle.install_esd = <<>>
    /\ scanned[1].bundle.alt_shared_support = <<>>
    /\ scanned[1].bundle.du = <<>>

\* C25: validate_safe_target returns safe only for a disk that is neither
\* disk0 nor disk1, is not the boot disk and has no partition mounted at /,
\* /System, /Library or /private, and only when the probe of the boot disk
\* and the probes of the mount points succeeded.
C25_SafeOnlyIfChecked ==
    is_safe = <<TRUE>> =>
        /\ selected_disk \notin {<<"d", "i", "s", "k", "0">>, <<"d", "i", "s", "k", "1">>}
        /\ selected_disk # machine[1].boot
        /\ machine[1].boot_probe # "fail"
        /\ machine[1].list_ok
        /\ \A i \in 1..Len(machine[1].listing) :
              machine[1].listing[i].id = selected_disk =>
                 /\ machine[1].listing[i].mounts # <<>> => machine[1].info_ok
                 /\ \A k \in 1..Len(machine[1].listing[i].mounts) :
                       machine[1].listing[i].mounts[k]
                           \notin {<<"/">>, <<"/", "S", "y", "s", "t", "e", "m">>, <<"/", "L", "i", "b", "r", "a", "r", "y">>, <<"/", "p", "r", "i", "v", "a", "t", "e">>}

\* disk3, a listed disk with an ordinary mounted volume on a machine booted
\* from disk2, was found safe
C25_Witness ==
    /\ is_safe = <<TRUE>>
    /\ selected_disk = <<"d", "i", "s", "k", "3">>
    /\ machine[1].boot = <<"d", "i", "s", "k", "2">>
    /\ \E i \in 1..Len(machine[1].listing) :
          /\ machine[1].listing[i].id = <<"d", "i", "s", "k", "3">>
          /\ machine[1].listing[i].mounts = <<<<"/", "V", "o", "l", "u", "m", "e", "s", "/", "U", "S", "B">>>>

\* C26: the list get_external_usb_drives returns holds neither disk0 nor
\* disk1 nor the disk of the boot volume, for either value of show_all.
C26_NoSystemDisk ==
    \A i \in 1..Len(usb_drives) : \A k \in 1..Len(usb_drives[i]) :
        /\ usb_drives[i][k].id \notin {<<"d", "i", "s", "k", "0">>, <<"d", "i", "s", "k", "1">>}
        /\ usb_drives[i][k].id # machine[1].boot

(***************************************************************************)
(* main.py: the command line.  mode_create_new validates the scanned       *)
(* installers, selects and validates the disk, partitions it and installs  *)
(* onto the slices; mode_update_existing reads the drive, lets the user    *)
(* select among the scanned installers and splits the data partition.      *)
(***************************************************************************)

MaxScanned == 2

\* one pass of the installation loop for the installer called name, on the
\* values st of partition_num, successful and failed.  "no_mount":
\* get_volume_mount_point returned None; "installed" and "install_failed":
\* what run_createinstallmedia returned; "exception": an exception other than
\* KeyboardInterrupt inside the try; "interrupt": KeyboardInterrupt.  The
\* finally clause adds one in every case, after the one the failed mount added.
install_iteration_success_first(st, name, outcome) ==
    [partition_num |-> st.partition_num + 1,
     successful |-> IF outcome \in {"installed", "exception"}
                    THEN Append(st.successful, name) ELSE st.successful,
     failed |-> IF outcome \in {"no_mount", "install_failed", "exception"}
                THEN Append(st.failed, name) ELSE st.failed]

install_iteration(st, name, outcome) ==
    [partition_num |-> IF outcome = "no_mount" THEN st.partition_num + 1 + 1
                       ELSE st.partition_num + 1,
     successful |-> IF outcome = "installed"
                    THEN Append(st.successful, name) ELSE st.successful,
     failed |-> IF outcome \in {"no_mount", "install_failed", "exception"}
                THEN Append(st.failed, name) ELSE st.failed]

InitCli ==
    /\ \/ /\ cli_mode = "create"
          /\ machine \in {<<m>> : m \in {x \in Machines :
                                            /\ x.boot = <<"d", "i", "s", "k", "0">>
                                            /\ x.boot_probe = "ok"
                                            /\ x.list_ok
                                            /\ Len(x.listing) = 1
                                            /\ x.listing[1].id = <<"d", "i", "s", "k", "2">>
                                            /\ x.listing[1].info # <<>>
                                            /\ Len(x.listing[1].mounts) = 1}}
          /\ UpdateIdle
       \/ /\ cli_mode = "update"
          /\ machine = <<>>
          /\ disk \in DriveLayouts
          /\ update_ui = "cli"
          /\ update_pc = "start"
          /\ structure = <<>>
          /\ actions = <<>>
          /\ action_index = 0
          /\ current_part = <<>>
          /\ new_partitions = <<>>
          /\ split_result = <<>>
          /\ commands = <<>>
    /\ scanned \in UNION {[1..n -> {scanned_installer(inst, b) :
                                       inst \in InstallerCatalog,
                                       b \in {x \in Bundles :
                                                 /\ x.shared_support \in {<<>>, <<12000000>>}
                                                 /\ x.base_system = <<>>
                                                 /\ x.install_esd = <<>>
                                                 /\ x.alt_shared_support = <<>>
                                                 /\ x.du = <<20000>>}}] :
                             n \in 1..MaxScanned}
    /\ cli_pc = "scan"
    /\ installers = <<>>
    /\ stub_flags = <<>>
    /\ partition_num = 0
    /\ successful = <<>>
    /\ failed = <<>>
    /\ erase_typed = FALSE
    /\ show_all = FALSE
    /\ usb_drives = <<>>
    /\ selected_disk = <<>>
    /\ is_safe = <<>>
    /\ is_working = FALSE
    /\ create_btn = "disabled"
    /\ dialogs = 0
    /\ workers = 0
    /\ deleters = 0
    /\ found = <<>>
    /\ SizeIdle
    /\ CreateIdle

\* mode_create_new, the validation loop: the installers that are no stubs
\* become valid_installers.  The download offered for a stub is declined; an
\* accepted download starts the function again with a new scan.
CliValidateInstallers ==
    /\ cli_mode = "create" /\ cli_pc = "scan"
    /\ stub_flags' = [i \in 1..Len(scanned) |-> is_stub_installer(scanned[i].bundle)]
    /\ \E valid_installers \in
           {SelectSeq(scanned, LAMBDA inst : ~is_stub_installer(inst.bundle))} :
          /\ installers' = valid_installers
          /\ cli_pc' = IF valid_installers = <<>> THEN "exit" ELSE "detect"
    /\ UNCHANGED <<scanned, cli_mode, partition_num, successful, failed, erase_typed,
                   machine, show_all, usb_drives,
                   selected_disk, is_safe, guiVars, sizeVars, createVars, updateVars>>

\* mode_create_new, steps 2 and 3: the drives get_external_usb_drives()
\* returns, the user's choice among them (0: none), validate_safe_target on
\* the chosen disk and confirm_destructive_action
CliSelectDisk ==
    /\ cli_mode = "create" /\ cli_pc = "detect"
    /\ \E drives \in {get_external_usb_drives(FALSE, machine[1])} :
       \E disk_choice \in 0..Len(drives) :
          /\ usb_drives' = <<drives>>
          /\ IF disk_choice = 0
             THEN /\ cli_pc' = "exit"
                  /\ UNCHANGED <<selected_disk, total_disk_gb, is_safe, erase_typed>>
             ELSE \E safe \in {validate_safe_target(drives[disk_choice].id, machine[1])} :
                     /\ selected_disk' = drives[disk_choice].id
                     /\ total_disk_gb' = drives[disk_choice].size_gb
                     /\ is_safe' = <<safe>>
                     /\ IF ~safe
                        THEN /\ cli_pc' = "exit"
                             /\ UNCHANGED erase_typed
                        ELSE \E typed \in BOOLEAN :
                                /\ erase_typed' = typed
                                /\ cli_pc' = IF typed THEN "partition" ELSE "exit"
    /\ UNCHANGED <<scanned, stub_flags, cli_mode, partition_num, successful, failed,
                   machine, show_all, installers, partitions, create_result, sizeVars,
                   updateVars, guiVars>>

\* mode_create_new, step 5: create_multiboot_layout on the valid installers;
\* False exits, True starts the installation loop at slice 3
CliCreateLayout ==
    /\ cli_mode = "create" /\ cli_pc = "partition"
    /\ \E plan \in {layout(installers, total_disk_gb)} :
          IF plan.exc # ""
          THEN /\ partitions' = <<>>
               /\ create_result' = plan.exc
               /\ cli_pc' = "error"
               /\ UNCHANGED <<commands, partition_num, action_index>>
          ELSE \E ok \in BOOLEAN :
                  /\ partitions' = plan.partitions
                  /\ create_result' = IF ok THEN "True" ELSE "False"
                  /\ commands' = Append(commands,
                         Command("partitionDisk", selected_disk, <<>>, 0, ok))
                  /\ IF ok
                     THEN /\ cli_pc' = "install"
                          /\ partition_num' = 3
                          /\ action_index' = 1
                     ELSE /\ cli_pc' = "exit"
                          /\ UNCHANGED <<partition_num, action_index>>
    /\ UNCHANGED <<scanned, stub_flags, cli_mode, successful, failed, erase_typed,
                   machine, show_all, usb_drives,
                   selected_disk, is_safe, guiVars, installers, total_disk_gb, sizeVars, disk, update_ui,
                   update_pc, structure, actions, current_part, new_partitions,
                   split_result>>

\* mode_create_new, the installation loop: one installer.  The slice
\* partition_num is mounted and createinstallmedia is run on its volume.
CliInstall ==
    /\ cli_mode = "create" /\ cli_pc = "install"
    /\ \E inst \in {installers[action_index]} :
       \E part_id \in {selected_disk \o <<"s">> \o Str(partition_num)} :
       \E outcome \in {"no_mount", "installed", "install_failed", "exception", "interrupt"} :
       \E st \in {install_iteration([partition_num |-> partition_num,
                                     successful |-> successful, failed |-> failed],
                                    inst.name, outcome)} :
          /\ commands' =
                IF outcome = "no_mount"
                THEN Append(commands, Command("mount", part_id, inst.name, 0, FALSE))
                ELSE Append(Append(commands, Command("mount", part_id, inst.name, 0, TRUE)),
                            Command("createinstallmedia", part_id, inst.name, 0,
                                    outcome \in {"installed", "exception"}))
          /\ partition_num' = st.partition_num
          /\ successful' = st.successful
          /\ failed' = st.failed
          /\ IF outcome = "interrupt"
             THEN /\ cli_pc' = "interrupted"
                  /\ UNCHANGED action_index
             ELSE /\ action_index' = action_index + 1
                  /\ cli_pc' = IF action_index = Len(installers) THEN "done" ELSE "install"
    /\ UNCHANGED <<scanned, stub_flags, cli_mode, erase_typed, machine, show_all, usb_drives,
                   selected_disk, is_safe, guiVars, installers,
                   sizeVars, createVars, disk, update_ui, update_pc, structure, actions,
                   current_part, new_partitions, split_result>>

\* mode_update_existing, step 2: scan_for_installers and
\* prompt_installer_selection; the installers at the selected indices become
\* new_installers, and an empty selection exits
CliSelectInstallers ==
    /\ cli_mode = "update" /\ cli_pc = "scan"
    /\ update_ui = "cli" /\ update_pc = "confirm"
    /\ \E selected \in SUBSET (1..Len(scanned)) :
       \E selected_indices \in
           {SelectSeq([i \in 1..Len(scanned) |-> i], LAMBDA i : i \in selected)} :
          /\ installers' = [k \in 1..Len(selected_indices) |-> scanned[selected_indices[k]]]
          /\ cli_pc' = "selected"
          /\ update_pc' = IF selected = {} THEN "exit" ELSE "confirm"
    /\ UNCHANGED <<scanned, stub_flags, cli_mode, partition_num, successful, failed,
                   erase_typed, machine, show_all, usb_drives,
                   selected_disk, is_safe, guiVars, sizeVars, createVars, disk, update_ui,
                   structure, actions, action_index, current_part, new_partitions,
                   split_result, commands>>

NextCli ==
    \/ CliValidateInstallers
    \/ CliSelectDisk
    \/ CliCreateLayout
    \/ CliInstall
    \/ CliAnalyze
    \/ CliSelectInstallers
    \/ CliConfirm
    \/ SplitPartition
    \/ CliAfterSplit

SpecCli == InitCli /\ [][NextCli]_vars

\* C21: an installer that is_stub_installer calls a stub is never in the list
\* handed to create_multiboot_layout or split_partition, and so never
\* installed by createinstallmedia.
C21_NoStubPlanned ==
    (create_result # "idle" \/ update_pc \in {"split", "returned", "install"}
         \/ commands # <<>>)
        => \A i \in 1..Len(installers) : ~is_stub_installer(installers[i].bundle)

\* C23: in create mode the installation of the k-th valid installer mounts
\* slice k+2 of the selected disk, whatever happened to the installers
\* before it.
C23_SliceOfInstaller ==
    \A mounts \in {SelectSeq(commands, LAMBDA c : c.cmd = "mount")} :
       \A k \in 1..Len(mounts) : mounts[k].target = selected_disk \o <<"s">> \o Str(k + 2)

\* C24: diskutil partitionDisk and diskutil splitPartition are issued only
\* after validate_safe_target returned safe for the selected disk and
\* confirm_destructive_action returned True.
C24_DestructiveAfterChecks ==
    \A i \in 1..Len(commands) :
        commands[i].cmd \in {"partitionDisk", "splitPartition"}
            => is_safe = <<TRUE>> /\ erase_typed

\* C27: without a user interrupt the installation loop attempts the valid
\* installers once each in list order, and every one of them is recorded in
\* exactly one of successful and failed.
C27_ExactlyOneList ==
    cli_pc \in {"install", "done"} =>
        \A mounts \in {SelectSeq(commands, LAMBDA c : c.cmd = "mount")} :
           /\ Len(mounts) = action_index - 1
           /\ \A k \in 1..Len(mounts) : mounts[k].name = installers[k].name
           /\ Len(successful) + Len(failed) = action_index - 1
           /\ \A k \in 1..(action_index - 1) :
                 Cardinality({i \in 1..Len(successful) : successful[i] = installers[k].name})
                   + Cardinality({i \in 1..Len(failed) : failed[i] = installers[k].name})
                 = Cardinality({i \in 1..(action_index - 1) :
                                   installers[i].name = installers[k].name})

\* two installers went through the loop, one into each list
C27_Witness ==
    /\ cli_pc = "done"
    /\ Len(installers) = 2
    /\ Len(successful) = 1
    /\ Len(failed) = 1

\* C28: after planning, the partition a replace action targets holds the OS
\* of the installer: its volume name contains no longer OS name of which the
\* installer's OS name is a part (the target of a Sierra installer is not a
\* High Sierra partition), whatever the order of the partitions.
C28_SameOsReplaced ==
    Planned =>
        \A i \in 1..Len(actions) : \A p \in 1..Len(structure[1].existing_partitions) :
            (/\ actions[i].type = "replace"
             /\ structure[1].existing_partitions[p].id = actions[i].target)
                => \A other \in InstallerCatalog :
                      \A os \in {get_os_name(installers[i].version, installers[i].name)} :
                      \A longer \in {get_os_name(other.version, other.name)} :
                         (/\ os.exc = "" /\ longer.exc = ""
                          /\ longer.name # os.name
                          /\ Contains(longer.name, os.name))
                             => ~Contains(structure[1].existing_partitions[p].name,
                                          longer.name)

(***************************************************************************)
(* ui/gui_tkinter.py: the creation of a drive from the window.  The        *)
(* installers are the selected ones; the button opens a pre-flight dialog, *)
(* its PROCEED button starts a worker thread, and the Delete Partition     *)
(* button starts a deletion thread.                                        *)
(***************************************************************************)

MaxSelected == 2

MaxDialogs == 2

MaxThreads == 2

InitGui ==
    /\ installers \in InstallerLists(MaxSelected)
    /\ total_disk_gb = 64
    /\ partitions = <<>>
    /\ create_result = "pending"
    /\ is_working = FALSE
    /\ create_btn = "normal"
    /\ dialogs = 0
    /\ workers = 0
    /\ deleters = 0
    /\ found = <<>>
    /\ scanned = <<>>
    /\ stub_flags = <<>>
    /\ cli_mode = "none"
    /\ cli_pc = "idle"
    /\ partition_num = 0
    /\ successful = <<>>
    /\ failed = <<>>
    /\ erase_typed = FALSE
    /\ machine = <<>>
    /\ show_all = FALSE
    /\ usb_drives = <<>>
    /\ selected_disk = <<>>
    /\ is_safe = <<>>
    /\ SizeIdle
    /\ UpdateIdle

\* start_creation, the command of the button: a disabled button runs no
\* command; the dialog is opened whatever is_working is
StartCreation ==
    /\ create_btn = "normal"
    /\ dialogs < MaxDialogs
    /\ dialogs' = dialogs + 1
    /\ UNCHANGED <<is_working, create_btn, workers, deleters, found, installers, sizeVars,
                   createVars, updateVars, cliVars, erase_typed, machine, show_all,
                   usb_drives, selected_disk, is_safe>>

\* the buttons of a pre-flight dialog: Cancel destroys it; PROCEED destroys
\* it and calls run_full_process, which disables the button, sets is_working
\* and starts process_thread
RunFullProcess ==
    /\ dialogs > 0
    /\ workers < MaxThreads
    /\ dialogs' = dialogs - 1
    /\ \E proceed \in BOOLEAN :
          IF proceed
          THEN /\ create_btn' = "disabled"
               /\ is_working' = TRUE
               /\ workers' = workers + 1
          ELSE UNCHANGED <<create_btn, is_working, workers>>
    /\ UNCHANGED <<deleters, found, installers, sizeVars, createVars, updateVars, cliVars,
                   erase_typed, machine, show_all, usb_drives, selected_disk, is_safe>>

\* process_thread in create mode with local installers: run_creation_thread.
\* create_multiboot_layout, then for each installer the partition of
\* get_partition_list (which lists the volumes under the names of the layout,
\* or returns [] when diskutil fails) called expected_vol_name; the handler
\* catches an exception, and the finally clause clears is_working and enables
\* the button
RunCreationThread ==
    /\ workers > 0
    /\ workers' = workers - 1
    /\ is_working' = FALSE
    /\ create_btn' = "normal"
    /\ \E plan \in {layout(installers, total_disk_gb)} :
          IF plan.exc # ""
          THEN /\ partitions' = <<>>
               /\ create_result' = plan.exc
               /\ UNCHANGED found
          ELSE \E ok \in BOOLEAN : \E listed \in BOOLEAN :
                  /\ partitions' = plan.partitions
                  /\ create_result' = IF ok THEN "True" ELSE "False"
                  /\ found' =
                        IF ~ok THEN found
                        ELSE [k \in 1..Len(installers) |->
                                [expected_vol_name |->
                                     volume_name(installers[k].version,
                                                 installers[k].name).name,
                                 target_part |->
                                     IF ~listed THEN 0
                                     ELSE First({p \in 1..Len(plan.partitions) :
                                                    plan.partitions[p].name =
                                                        volume_name(installers[k].version,
                                                                    installers[k].name).name})]]
    /\ UNCHANGED <<dialogs, deleters, installers, total_disk_gb, sizeVars, updateVars,
                   cliVars, erase_typed, machine, show_all, usb_drives, selected_disk,
                   is_safe>>

\* delete_existing_partition with a selected partition and the question
\* answered with yes: the thread is started whatever is_working is
DeleteExistingPartition ==
    /\ deleters < MaxThreads
    /\ deleters' = deleters + 1
    /\ UNCHANGED <<is_working, create_btn, dialogs, workers, found, installers, sizeVars,
                   createVars, updateVars, cliVars, erase_typed, machine, show_all,
                   usb_drives, selected_disk, is_safe>>

\* run_delete_partition has run to its end
RunDeletePartition ==
    /\ deleters > 0
    /\ deleters' = deleters - 1
    /\ UNCHANGED <<is_working, create_btn, dialogs, workers, found, installers, sizeVars,
                   createVars, updateVars, cliVars, erase_typed, machine, show_all,
                   usb_drives, selected_disk, is_safe>>

NextGui ==
    \/ StartCreation
    \/ RunFullProcess
    \/ RunCreationThread
    \/ DeleteExistingPartition
    \/ RunDeletePartition

SpecGui == InitGui /\ [][NextGui]_vars

\* C29: in run_creation_thread the volume name looked up for the k-th
\* installer is the name create_multiboot_layout gave its partition (entry
\* k+1 of the layout, after EFI_SYSTEM), and with the partitions listed that
\* partition is the one found.
C29_LookupFindsPartition ==
    \A k \in 1..Len(found) :
        /\ found[k].expected_vol_name = partitions[k + 1].name
        /\ found[k].target_part \in {0, k + 1}

\* C30: at most one thread that modifies the disk runs at a time: while a
\* worker started by run_full_process runs (is_working is True), no second
\* worker and no deletion thread is started.
C30_NoStartWhileWorking ==
    [][is_working => (workers' <= workers /\ deleters' <= deleters)]_vars
====
